---- MODULE Spec2Model ----
(***************************************************************************)
(* harv-v2: the 4-layer memory context assembly (EnhancedMemoryService),   *)
(* the insight / progress persistence operations, the progress formula of  *)
(* the module endpoints, the Socratic compliance analyser, the context     *)
(* metrics, concurrent progress updates and the websocket chat handler.    *)
(*                                                                         *)
(* The relational store is modelled as one sequence of rows per table, in  *)
(* insertion (primary key) order.  Fractions are scaled integers:          *)
(*   confidence_level, connection_strength  in tenths   (0.7  ->  7)       *)
(*   completion_percentage of the store    in percent   (integers)         *)
(*   the progress formula                  in twentieths of a percent      *)
(***************************************************************************)
EXTENDS Integers, Sequences, FiniteSets, TLC

\* ------------------------------------------------------------------ bounds
NUsers == 2
NModules == 2
MaxMsgs == 12
MaxSummaries == 2
MaxOps == 2
MaxReplyLen == 7
MaxCount == 3

VARIABLES users, modules, onboarding, conversations, memory_summaries,
          user_progress, ops, arg, ret, sessions, socket, chat, tracker

store == <<users, modules, onboarding, conversations, memory_summaries, user_progress>>
vars == <<users, modules, onboarding, conversations, memory_summaries,
          user_progress, ops, arg, ret, sessions, socket, chat, tracker>>

\* ------------------------------------------------------------- primitives
NoRet == [op |-> "none"]
NoArg == [kind |-> "none"]
NoSocket == [state |-> "none"]
NoChat == [pc |-> "none"]
\* MetricsTracker.__init__; recorded_requests and recorded_memory are not
\* fields of the class: they keep everything ever recorded, for the
\* statement of the window properties
NoTracker ==
    [request_times |-> <<>>, memory_times |-> <<>>, api_calls |-> 0, errors |-> 0,
     recorded_requests |-> <<>>, recorded_memory |-> <<>>]
Min(a, b) == IF a <= b THEN a ELSE b
Max(a, b) == IF a >= b THEN a ELSE b

UserIds == 1..NUsers
ModuleIds == 1..NModules
\* ids a caller may pass: one more than exists, so a missing row is reachable
CallUserIds == 1..(NUsers + 1)
CallModuleIds == 1..(NModules + 1)

\* seq[:n]
Take(s, n) == SubSeq(s, 1, Min(n, Len(s)))

\* seq[-n:]
Last(s, n) == SubSeq(s, Max(1, Len(s) - n + 1), Len(s))

Range(s) == {s[i] : i \in DOMAIN s}

\* ---------------------------------------------------- messages_json (Text)
\* The legacy column holds JSON text.  A text is described by its kind:
\*   null     SQL NULL                     empty    the empty string
\*   invalid  text json.loads rejects      scalar   a JSON number
\*   list     a JSON array of n message objects {role, content}, roles
\*            alternating user / assistant, every content naming `topic`
JNull == [kind |-> "null", n |-> 0, topic |-> "none"]
JEmpty == [kind |-> "empty", n |-> 0, topic |-> "none"]
JInvalid == [kind |-> "invalid", n |-> 0, topic |-> "none"]
JScalar == [kind |-> "scalar", n |-> 0, topic |-> "none"]
JList(n, topic) == [kind |-> "list", n |-> n, topic |-> topic]

\* `if conv.messages_json`: None and "" are falsy
Truthy(j) == j.kind \notin {"null", "empty"}

MessageAt(j, i) ==
    [role |-> IF i % 2 = 1 THEN "user" ELSE "assistant",
     topic |-> j.topic,
     question |-> (i % 2 = 0)]

\* json.loads(text): raises on invalid text, else the parsed value
JsonLoads(j) ==
    CASE j.kind = "list" -> [raised |-> FALSE, islist |-> TRUE,
                             val |-> [i \in 1..j.n |-> MessageAt(j, i)]]
      [] j.kind = "scalar" -> [raised |-> FALSE, islist |-> FALSE, val |-> <<>>]
      [] OTHER -> [raised |-> TRUE, islist |-> FALSE, val |-> <<>>]

\* len(json.loads(text)): raises JSONDecodeError on invalid text and TypeError
\* on a number
JsonLen(j) ==
    LET p == JsonLoads(j)
    IN IF p.raised \/ ~p.islist
         THEN [raised |-> TRUE, val |-> 0]
         ELSE [raised |-> FALSE, val |-> Len(p.val)]

\* ------------------------------------------------------------ store reads
UserRow(u) == IF u \in users THEN [found |-> TRUE, id |-> u] ELSE [found |-> FALSE, id |-> 0]

ModuleRow(m) ==
    LET hit == SelectSeq(modules, LAMBDA r : r.id = m)
    IN IF hit = <<>> THEN [found |-> FALSE] ELSE [found |-> TRUE, row |-> hit[1]]

\* ORDER BY updated_at DESC.  SQL leaves the order of rows with equal keys
\* to the engine: tb = "asc" puts the lower id first among ties, "desc" the
\* higher one.
Before(a, b, tb) ==
    \/ a.updated_at > b.updated_at
    \/ /\ a.updated_at = b.updated_at
       /\ IF tb = "asc" THEN a.id < b.id ELSE a.id > b.id

RECURSIVE OrderByUpdatedDesc(_, _)
OrderByUpdatedDesc(rows, tb) ==
    IF rows = <<>> THEN <<>>
    ELSE LET k == CHOOSE i \in DOMAIN rows :
                    \A j \in DOMAIN rows : j = i \/ Before(rows[i], rows[j], tb)
             rest == [i \in 1..(Len(rows) - 1) |-> IF i < k THEN rows[i] ELSE rows[i + 1]]
         IN <<rows[k]>> \o OrderByUpdatedDesc(rest, tb)

\* ORDER BY confidence_level DESC (ties in table order)
RECURSIVE OrderByConfidenceDesc(_)
OrderByConfidenceDesc(rows) ==
    IF rows = <<>> THEN <<>>
    ELSE LET k == CHOOSE i \in DOMAIN rows :
                    \A j \in DOMAIN rows :
                        \/ j = i
                        \/ rows[i].confidence_level > rows[j].confidence_level
                        \/ (rows[i].confidence_level = rows[j].confidence_level /\ i < j)
             rest == [i \in 1..(Len(rows) - 1) |-> IF i < k THEN rows[i] ELSE rows[i + 1]]
         IN <<rows[k]>> \o OrderByConfidenceDesc(rest)

\* ------------------------------------------------- Layer 1: system data
SystemDataFallback ==
    [learning_profile |-> [style |-> "adaptive", pace |-> "moderate",
                           background |-> "beginner",
                           goals |-> <<"improve communication skills">>],
     cross_module_mastery |-> <<>>,
     learning_strengths |-> <<>>,
     mastered_concepts |-> <<>>]

InjectSystemData(u, faults) ==
    LET surveys == SelectSeq(onboarding, LAMBDA r : r.user_id = u)
        completed_conversations == SelectSeq(conversations, LAMBDA r : r.user_id = u)
        summaries == SelectSeq(memory_summaries, LAMBDA r : r.user_id = u)
        recent == Take(completed_conversations, 5)
        Count(conv) == IF Truthy(conv.messages_json)
                         THEN JsonLen(conv.messages_json)
                         ELSE [raised |-> FALSE, val |-> 0]
        raised == \/ "L1" \in faults
                  \/ \E i \in DOMAIN recent : Count(recent[i]).raised
    IN IF raised THEN SystemDataFallback
       ELSE [learning_profile |->
                [style |-> IF surveys # <<>> THEN surveys[1].learning_style ELSE "adaptive",
                 pace |-> IF surveys # <<>> THEN surveys[1].preferred_pace ELSE "moderate",
                 background |-> "beginner",
                 goals |-> <<"improve communication skills">>],
             cross_module_mastery |->
                [i \in DOMAIN recent |->
                    [module_id |-> recent[i].module_id,
                     last_activity |-> recent[i].updated_at,
                     message_count |-> Count(recent[i]).val,
                     insights_gained |->
                        Len(SelectSeq(summaries, LAMBDA r : r.module_id = recent[i].module_id))]],
             learning_strengths |->
                [i \in DOMAIN Take(summaries, 3) |-> summaries[i].what_learned],
             mastered_concepts |->
                LET hit == SelectSeq(summaries, LAMBDA r : r.confidence_level > 7)
                IN [i \in DOMAIN hit |-> hit[i].connections_made]]

\* ------------------------------------------------- Layer 2: module data
\* _generate_socratic_strategy is an async def called without await: the
\* value stored in the layer is the coroutine object, not the strategy text
CoroutineObject == "<coroutine object _generate_socratic_strategy>"

GenerateSocraticStrategy(module) == CoroutineObject

\* the keywords of the rule table found in module.title.lower()
TitleKeywords(title) ==
    CASE title = "Mass Communication" -> {"communication"}
      [] title = "Media and Society" -> {"media", "society"}
      [] OTHER -> {}

\* the body of _generate_socratic_strategy: what awaiting the coroutine
\* would return
SocraticStrategyBody(module) ==
    LET module_title == TitleKeywords(module.title)
    IN IF "communication" \in module_title
         THEN "Guide discovery of communication principles through real-world examples"
       ELSE IF "media" \in module_title
         THEN "Question assumptions about media influence and bias"
       ELSE IF "society" \in module_title
         THEN "Explore social connections through critical questioning"
       ELSE "Use strategic questioning to reveal underlying concepts"

ModuleDataFallback(module) ==
    [module_info |-> [id |-> module.id, title |-> module.title,
                      description |-> "Learning module: " \o module.title,
                      objectives |-> "Master key concepts through Socratic dialogue",
                      progress |-> 0],
     teaching_configuration |->
        [system_prompt |-> "Use Socratic questioning to guide student discovery",
         module_prompt |-> "Focus on understanding through guided questions",
         socratic_intensity |-> "moderate"],
     socratic_strategy |-> "Guide discovery through strategic questioning",
     context_rules |-> {"include_system_memory"}]

InjectModuleData(module, faults) ==
    LET hit == SelectSeq(user_progress, LAMBDA r : r.module_id = module.id)
    IN IF "L2" \in faults THEN ModuleDataFallback(module)
       ELSE [module_info |-> [id |-> module.id, title |-> module.title,
                              description |-> module.description,
                              objectives |-> module.learning_objectives,
                              progress |-> IF hit # <<>> THEN hit[1].completion_percentage ELSE 0],
             teaching_configuration |->
                [system_prompt |-> module.system_prompt,
                 module_prompt |-> module.module_prompt,
                 socratic_intensity |-> "moderate",
                 allowed_topics |-> <<"communication", "media", "society">>,
                 memory_context_template |-> "default",
                 cross_module_references |-> "default"],
             socratic_strategy |-> GenerateSocraticStrategy(module),
             context_rules |-> {"include_system_memory", "include_module_progress",
                                "include_learning_style", "include_conversation_state",
                                "update_memory_on_response", "track_understanding_level"}]

\* --------------------------------------------- Layer 3: conversation data
ExtractDialogueContext(messages) ==
    LET recent == Last(messages, 5)
        topics == {recent[i].topic : i \in DOMAIN recent} \ {"none"}
    IN IF messages = <<>> THEN "Beginning new dialogue"
       ELSE IF topics # {} THEN "Discussing: " \o (CHOOSE t \in topics : TRUE)
       ELSE "Active dialogue in progress"

\* variant: engagement is rated on all messages instead of the user's
AnalyzeConversationPatternsAllMessages(messages) ==
    LET ai_messages == SelectSeq(messages, LAMBDA m : m.role = "assistant")
    IN IF messages = <<>>
         THEN [topic_focus |-> "introduction", engagement_level |-> "beginning"]
         ELSE [topic_focus |-> "communication theory",
               engagement_level |-> IF Len(messages) > 3 THEN "high" ELSE "moderate",
               question_count |-> Len(SelectSeq(ai_messages, LAMBDA m : m.question))]

AnalyzeConversationPatterns(messages) ==
    LET user_messages == SelectSeq(messages, LAMBDA m : m.role = "user")
        ai_messages == SelectSeq(messages, LAMBDA m : m.role = "assistant")
    IN IF messages = <<>>
         THEN [topic_focus |-> "introduction", engagement_level |-> "beginning"]
         ELSE [topic_focus |-> "communication theory",
               engagement_level |-> IF Len(user_messages) > 3 THEN "high" ELSE "moderate",
               question_count |-> Len(SelectSeq(ai_messages, LAMBDA m : m.question))]

ConversationDataFallback ==
    [state |-> "error_fallback", message_history |-> <<>>,
     dialogue_context |-> "Unable to load conversation context",
     conversation_analysis |-> [status |-> "error"]]

\* variant: the supplied id is looked up without the user and module filter
ResolveConversationById(u, m, cid, tb) ==
    LET mine == SelectSeq(conversations, LAMBDA r : r.user_id = u /\ r.module_id = m)
        exact == IF cid # 0 THEN SelectSeq(conversations, LAMBDA r : r.id = cid) ELSE <<>>
        recent == OrderByUpdatedDesc(mine, tb)
    IN IF exact # <<>> THEN <<exact[1]>>
       ELSE IF recent # <<>> THEN <<recent[1]>>
       ELSE <<>>

\* the two conversation queries of _inject_conversation_data: the supplied id
\* (None and "" are falsy: 0 here) among the conversations of the user and
\* module, else their most recently updated one; <<>> when there is none
ResolveConversation(u, m, cid, tb) ==
    LET mine == SelectSeq(conversations, LAMBDA r : r.user_id = u /\ r.module_id = m)
        exact == IF cid # 0 THEN SelectSeq(mine, LAMBDA r : r.id = cid) ELSE <<>>
        recent == OrderByUpdatedDesc(mine, tb)
    IN IF exact # <<>> THEN <<exact[1]>>
       ELSE IF recent # <<>> THEN <<recent[1]>>
       ELSE <<>>

\* the body of the try block of _inject_conversation_data: the layer, or
\* [raised |-> TRUE] when an exception leaves it
ConversationDataQuery(u, m, cid, tb) ==
    LET resolved == ResolveConversation(u, m, cid, tb)
        found == resolved # <<>>
        conversation == resolved[1]
        parsed == IF Truthy(conversation.messages_json)
                    THEN JsonLoads(conversation.messages_json)
                    ELSE [raised |-> FALSE, islist |-> TRUE, val |-> <<>>]
        \* except (json.JSONDecodeError, TypeError): messages = []
        messages == IF parsed.raised THEN <<>> ELSE parsed.val
    IN IF ~found
         THEN [state |-> "new_conversation", message_history |-> <<>>,
               dialogue_context |-> "Starting fresh conversation",
               conversation_analysis |->
                  [topic_focus |-> "introduction", engagement_level |-> "beginning"]]
       \* a parsed number cannot be sliced: TypeError
       ELSE IF ~parsed.raised /\ ~parsed.islist THEN [raised |-> TRUE]
       ELSE [state |-> "active_conversation",
             message_history |-> Last(messages, 10),
             dialogue_context |-> ExtractDialogueContext(messages),
             conversation_analysis |-> AnalyzeConversationPatterns(messages),
             conversation_id |-> conversation.id]

\* variant: the except clause of the layer is missing, the exception leaves it
InjectConversationDataNoTry(u, m, cid, faults, tb) ==
    IF "L3" \in faults THEN [raised |-> TRUE] ELSE ConversationDataQuery(u, m, cid, tb)

\* try: the queries / except Exception: the fallback value
InjectConversationData(u, m, cid, faults, tb) ==
    LET body == IF "L3" \in faults THEN [raised |-> TRUE]
                ELSE ConversationDataQuery(u, m, cid, tb)
    IN IF "raised" \in DOMAIN body THEN ConversationDataFallback ELSE body

\* ----------------------------------------------- Layer 4: prior knowledge
\* variant: the fallback lists no mastered concept
PriorKnowledgeFallbackEmpty ==
    [prior_module_insights |-> <<>>,
     mastered_concepts |-> <<>>,
     cross_module_connections |-> <<>>]

PriorKnowledgeFallback ==
    [prior_module_insights |-> <<>>,
     mastered_concepts |-> <<"Communication fundamentals", "Critical thinking">>,
     cross_module_connections |-> <<>>]

\* variant: the strength is not capped at 1.0
ModuleInsightUncapped(conv, module) ==
    LET counted == IF Truthy(conv.messages_json)
                     THEN JsonLen(conv.messages_json)
                     ELSE [raised |-> FALSE, val |-> 0]
        message_count == IF counted.raised THEN 0 ELSE counted.val
    IN [module_id |-> conv.module_id,
        module_title |-> module.title,
        key_insight |-> "Previous learning experience with " \o module.title,
        message_count |-> message_count,
        last_activity |-> conv.updated_at,
        connection_strength |-> message_count]

\* one entry of module_insights for a retained conversation
ModuleInsight(conv, module) ==
    LET counted == IF Truthy(conv.messages_json)
                     THEN JsonLen(conv.messages_json)
                     ELSE [raised |-> FALSE, val |-> 0]
        \* bare except: message_count = 0
        message_count == IF counted.raised THEN 0 ELSE counted.val
    IN [module_id |-> conv.module_id,
        module_title |-> module.title,
        key_insight |-> "Previous learning experience with " \o module.title,
        message_count |-> message_count,
        last_activity |-> conv.updated_at,
        \* min(message_count / 10.0, 1.0), in tenths
        connection_strength |-> Min(message_count, 10)]

\* variant: a later conversation of a module replaces the entry of the module
RECURSIVE GroupByModuleLast(_, _)
GroupByModuleLast(convs, acc) ==
    IF convs = <<>> THEN acc
    ELSE LET conv == Head(convs)
             module == ModuleRow(conv.module_id)
             kept == SelectSeq(acc, LAMBDA e : e.module_id # conv.module_id)
         IN GroupByModuleLast(Tail(convs),
                IF module.found
                  THEN Append(kept, ModuleInsight(conv, module.row))
                  ELSE acc)

\* the dict module_insights after the loop over the ordered conversations,
\* as the sequence of its values in insertion order
RECURSIVE GroupByModule(_, _)
GroupByModule(convs, acc) ==
    IF convs = <<>> THEN acc
    ELSE LET conv == Head(convs)
             seen == \E i \in DOMAIN acc : acc[i].module_id = conv.module_id
             module == ModuleRow(conv.module_id)
         IN GroupByModule(Tail(convs),
                IF ~seen /\ module.found
                  THEN Append(acc, ModuleInsight(conv, module.row))
                  ELSE acc)

InjectPriorKnowledge(u, current_module_id, faults, tb) ==
    LET other_modules_conversations ==
            OrderByUpdatedDesc(
                SelectSeq(conversations,
                       LAMBDA r : /\ r.user_id = u
                                  /\ r.module_id # current_module_id
                                  /\ r.messages_json.kind # "null"),
                tb)
        module_insights == GroupByModule(other_modules_conversations, <<>>)
        summaries == OrderByConfidenceDesc(
                        SelectSeq(memory_summaries, LAMBDA r : r.user_id = u))
        top == SelectSeq(Take(summaries, 5), LAMBDA r : r.confidence_level > 6)
        linked == SelectSeq(summaries, LAMBDA r : r.connections_made # "")
    IN IF "L4" \in faults THEN PriorKnowledgeFallback
       ELSE [prior_module_insights |-> Take(module_insights, 3),
             mastered_concepts |-> [i \in DOMAIN top |-> top[i].what_learned],
             cross_module_connections |->
                [i \in DOMAIN Take(linked, 3) |-> linked[i].connections_made]]

\* ------------------------------------------------------- prompt assembly
\* The prompt is "\n".join(prompt_sections): it is kept as the sequence of
\* its sections, each with the marker it opens with and its full text.
Line(marker, text) == [marker |-> marker, text |-> text]

RECURSIVE JoinWith(_, _)
JoinWith(strs, sep) ==
    IF strs = <<>> THEN ""
    ELSE IF Len(strs) = 1 THEN strs[1]
    ELSE strs[1] \o sep \o JoinWith(Tail(strs), sep)

\* f"{x:.1f}" of a whole number of percent
FormatPercent(x) == ToString(x) \o ".0"

\* current_message is the sequence of its lower-cased words; "?" is a word
AnalyzeCurrentMessage(message) ==
    LET words == {message[i] : i \in DOMAIN message}
    IN IF "?" \in words THEN "Student is asking - guide with counter-questions"
       ELSE IF words \cap {"what", "how", "why", "when", "where"} # {}
         THEN "Exploratory inquiry - use Socratic method"
       ELSE IF words \cap {"think", "believe", "feel"} # {}
         THEN "Opinion/reflection - probe deeper reasoning"
       ELSE IF Len(message) < 5 THEN "Brief response - encourage elaboration"
       ELSE "Detailed input - identify key concepts to explore"

\* variant: the section is appended whether or not its condition holds
WhenAlways(cond, lines) == lines

\* the sections a condition guards: <<line>> when it holds, else <<>>
When(cond, lines) == IF cond THEN lines ELSE <<>>

\* variant: every insight of Layer 4 is listed
ShownInsightsAll(prior_module_insights) == prior_module_insights

\* prior_knowledge['prior_module_insights'][:2]
ShownInsights(prior_module_insights) == Take(prior_module_insights, 2)

\* prior_knowledge['mastered_concepts'][:3]
ShownConcepts(mastered_concepts) == Take(mastered_concepts, 3)

AssembleOptimizedPrompt(system_data, module_data, conversation_data, prior_knowledge, current_message) ==
    LET learning_profile == system_data.learning_profile
        module_info == module_data.module_info
        teaching_config == module_data.teaching_configuration
        insights == ShownInsights(prior_knowledge.prior_module_insights)
    IN    <<Line("=== HARV ENHANCED MEMORY CONTEXT ===", "=== HARV ENHANCED MEMORY CONTEXT ==="),
            Line("STUDENT PROFILE",
                 "STUDENT PROFILE: " \o learning_profile.style \o " learner, "
                   \o learning_profile.pace \o " pace, "
                   \o learning_profile.background \o " background")>>
       \o When(learning_profile.goals # <<>>,
               <<Line("LEARNING GOALS",
                      "LEARNING GOALS: " \o JoinWith(learning_profile.goals, ", "))>>)
       \o When(system_data.cross_module_mastery # <<>>,
               <<Line("PRIOR EXPERIENCE",
                      "PRIOR EXPERIENCE: " \o ToString(Len(system_data.cross_module_mastery))
                        \o " previous module interactions")>>)
       \o <<Line("MODULE CONTEXT",
                 "\nMODULE CONTEXT: " \o module_info.title \o " - " \o module_info.description),
            Line("LEARNING OBJECTIVES", "LEARNING OBJECTIVES: " \o module_info.objectives),
            Line("PROGRESS", "PROGRESS: " \o FormatPercent(module_info.progress) \o "% complete")>>
       \o When(teaching_config.system_prompt # "",
               <<Line("TEACHING APPROACH", "TEACHING APPROACH: " \o teaching_config.system_prompt)>>)
       \o When(teaching_config.module_prompt # "",
               <<Line("MODULE STRATEGY", "MODULE STRATEGY: " \o teaching_config.module_prompt)>>)
       \o <<Line("CONVERSATION STATE", "\nCONVERSATION STATE: " \o conversation_data.state),
            Line("DIALOGUE CONTEXT", "DIALOGUE CONTEXT: " \o conversation_data.dialogue_context)>>
       \o When(conversation_data.message_history # <<>>,
               <<Line("RECENT MESSAGES",
                      "RECENT MESSAGES: " \o ToString(Len(conversation_data.message_history))
                        \o " messages in conversation")>>)
       \o When(prior_knowledge.prior_module_insights # <<>>,
               <<Line("PRIOR LEARNING CONNECTIONS", "\nPRIOR LEARNING CONNECTIONS:")>>
               \o [i \in DOMAIN insights |->
                     Line("- connection",
                          "- " \o insights[i].module_title \o ": " \o insights[i].key_insight)])
       \o When(prior_knowledge.mastered_concepts # <<>>,
               <<Line("MASTERED CONCEPTS",
                      "MASTERED CONCEPTS: "
                        \o JoinWith(ShownConcepts(prior_knowledge.mastered_concepts), ", "))>>)
       \o <<Line("SOCRATIC APPROACH", "\nSOCRATIC APPROACH: " \o module_data.socratic_strategy)>>
       \o When(current_message # <<>>,
               <<Line("STUDENT MESSAGE", "\nSTUDENT MESSAGE: " \o JoinWith(current_message, " ")),
                 Line("RESPONSE STRATEGY",
                      "RESPONSE STRATEGY: " \o AnalyzeCurrentMessage(current_message))>>)
       \o <<Line("=== CORE INSTRUCTION ===", "\n=== CORE INSTRUCTION ==="),
            Line("Remember", "Remember: Use Socratic questioning to guide discovery. Never give direct answers."),
            Line("Focus", "Focus on asking strategic questions that lead the student to insights."),
            Line("Build", "Build on their prior knowledge and learning style for maximum effectiveness.")>>

\* len("\n".join(sections))
RECURSIVE SumLen(_)
SumLen(lines) == IF lines = <<>> THEN 0 ELSE Len(Head(lines).text) + SumLen(Tail(lines))

PromptLen(lines) == IF lines = <<>> THEN 0 ELSE SumLen(lines) + (Len(lines) - 1)

\* prompt.count(marker) > 0
HasMarker(lines, marker) == \E i \in DOMAIN lines : lines[i].marker = marker

OptimalChars == 2000

\* optimization_score is kept in thousandths: min(len / 2000, 1.0)
OptimizationScore(total_chars) == Min((total_chars * 1000) \div OptimalChars, 1000)

CalculateContextMetrics(prompt) ==
    [total_chars |-> PromptLen(prompt),
     optimization_score |-> OptimizationScore(PromptLen(prompt)),
     layer_breakdown |->
        [system_data |-> Cardinality({i \in DOMAIN prompt : prompt[i].marker = "STUDENT PROFILE"}),
         module_data |-> Cardinality({i \in DOMAIN prompt : prompt[i].marker = "MODULE CONTEXT"}),
         conversation_data |-> Cardinality({i \in DOMAIN prompt : prompt[i].marker = "CONVERSATION STATE"}),
         prior_knowledge |-> Cardinality({i \in DOMAIN prompt : prompt[i].marker = "PRIOR LEARNING CONNECTIONS"})]]

\* ---------------------------------------------------------- entry point
\* _get_user_safely / _get_module_safely: a failed query is logged and None
\* is returned
GetUserSafely(u, faults) ==
    IF "user" \in faults THEN [found |-> FALSE, id |-> 0] ELSE UserRow(u)

GetModuleSafely(m, faults) ==
    IF "module" \in faults THEN [found |-> FALSE] ELSE ModuleRow(m)

\* variant: the fallback context is returned with an empty prompt
CreateFallbackContextNoPrompt(u, m) ==
    [raised |-> FALSE,
     path |-> "fallback",
     assembled_prompt |-> <<Line("", "")>>,
     context_metrics |-> [total_chars |-> 0, optimization_score |-> 0],
     memory_layers |->
        [system_data |-> [learning_profile |-> [style |-> "error", pace |-> "unknown"]],
         module_data |-> [module_info |-> [title |-> "Module " \o ToString(m) \o " (Error)"]],
         conversation_data |-> [state |-> "error_state"],
         prior_knowledge |-> [prior_module_insights |-> <<>>]],
     database_status |->
        [user_found |-> FALSE, module_found |-> FALSE, onboarding_loaded |-> FALSE,
         module_config_loaded |-> FALSE, conversation_analyzed |-> FALSE,
         cross_module_connections |-> FALSE]]

CreateFallbackContext(u, m) ==
    [raised |-> FALSE,
     path |-> "fallback",
     assembled_prompt |->
        <<Line("Error: Unable to load memory context",
               "Error: Unable to load memory context for user " \o ToString(u)
                 \o ", module " \o ToString(m)
                 \o ". Proceeding with basic Socratic teaching approach.")>>,
     context_metrics |-> [total_chars |-> 0, optimization_score |-> 0],
     memory_layers |->
        [system_data |-> [learning_profile |-> [style |-> "error", pace |-> "unknown"]],
         module_data |-> [module_info |-> [title |-> "Module " \o ToString(m) \o " (Error)"]],
         conversation_data |-> [state |-> "error_state"],
         prior_knowledge |-> [prior_module_insights |-> <<>>]],
     database_status |->
        [user_found |-> FALSE, module_found |-> FALSE, onboarding_loaded |-> FALSE,
         module_config_loaded |-> FALSE, conversation_analyzed |-> FALSE,
         cross_module_connections |-> FALSE]]

HandleMemoryError(u, m) ==
    [raised |-> FALSE,
     path |-> "error",
     assembled_prompt |->
        <<Line("Unable to load enhanced memory context",
               "Unable to load enhanced memory context. Using basic teaching mode for Module "
                 \o ToString(m) \o ".")>>,
     context_metrics |-> [total_chars |-> 0, error |-> TRUE],
     memory_layers |-> [system_data |-> <<>>, module_data |-> <<>>,
                        conversation_data |-> <<>>, prior_knowledge |-> <<>>],
     database_status |-> [user_found |-> FALSE, module_found |-> FALSE, error |-> TRUE]]

\* the body of the try block: a result, or an exception that left a layer
AssembleBody(u, m, current_message, cid, faults, tb) ==
    LET user == GetUserSafely(u, faults)
        module == GetModuleSafely(m, faults)
    IN IF ~user.found \/ ~module.found THEN CreateFallbackContext(u, m)
       ELSE LET system_data == InjectSystemData(user.id, faults)
                module_data == InjectModuleData(module.row, faults)
                conversation_data == InjectConversationData(u, m, cid, faults, tb)
                prior_knowledge == InjectPriorKnowledge(u, m, faults, tb)
                assembled_prompt == AssembleOptimizedPrompt(system_data, module_data,
                                        conversation_data, prior_knowledge, current_message)
            IN IF \/ "raised" \in DOMAIN system_data
                  \/ "raised" \in DOMAIN module_data
                  \/ "raised" \in DOMAIN conversation_data
                  \/ "raised" \in DOMAIN prior_knowledge
                 THEN [raised |-> TRUE]
                 ELSE [raised |-> FALSE,
                       path |-> "assembled",
                       assembled_prompt |-> assembled_prompt,
                       context_metrics |-> CalculateContextMetrics(assembled_prompt),
                       memory_layers |->
                          [system_data |-> system_data, module_data |-> module_data,
                           conversation_data |-> conversation_data,
                           prior_knowledge |-> prior_knowledge],
                       database_status |->
                          [user_found |-> TRUE, module_found |-> TRUE,
                           \* bool(layer.get(key)): a non-empty dict or list
                           onboarding_loaded |-> DOMAIN system_data.learning_profile # {},
                           module_config_loaded |->
                              DOMAIN module_data.teaching_configuration # {},
                           conversation_analyzed |-> conversation_data.state # "",
                           cross_module_connections |->
                              prior_knowledge.prior_module_insights # <<>>]]

\* assemble_enhanced_context: try: body / except Exception: _handle_memory_error
AssembleEnhancedContext(u, m, current_message, cid, faults, tb) ==
    LET body == AssembleBody(u, m, current_message, cid, faults, tb)
    IN IF body.raised THEN HandleMemoryError(u, m) ELSE body

\* ------------------------------------------------------------ seed data
ModuleSeed(i) ==
    [id |-> i,
     title |-> CASE i = 1 -> "Mass Communication"
                 [] i = 2 -> "Media and Society"
                 [] OTHER -> "Module " \o ToString(i),
     description |-> "Module for testing memory system",
     \* module 2 holds the JSON list the admin endpoints write, module 1 the
     \* plain text of the test fixtures
     learning_objectives |-> IF i = 2 THEN "[\"Define framing\"]" ELSE "Test objective 1",
     system_prompt |-> "Guide with questions",
     \* module_prompt is nullable: None is shown as ""
     module_prompt |-> IF i = 1 THEN "Focus on discovery" ELSE ""]

SurveySeed == <<[user_id |-> 1, learning_style |-> "visual", preferred_pace |-> "moderate"]>>

JsonSamples ==
    {JNull, JEmpty, JInvalid, JScalar, JList(0, "none"), JList(2, "none"),
     JList(5, "none"), JList(7, "media"), JList(MaxMsgs, "communication")}

\* messages is the number of Message rows of the conversation (the relationship
\* Conversation.messages); messages_json is the legacy text column
ConversationRow(id, u, m, t, j, k) ==
    [id |-> id, user_id |-> u, module_id |-> m, updated_at |-> t, messages_json |-> j,
     messages |-> k]

\* confidence_level and retention_strength are in tenths
SummaryRow(id, u, m, what, how, links, conf, retention) ==
    [id |-> id, user_id |-> u, module_id |-> m, what_learned |-> what,
     how_learned |-> how, connections_made |-> links, confidence_level |-> conf,
     retention_strength |-> retention]

ProgressRow(id, u, m, completion, mastery, insights, questions, convs, msgs) ==
    [id |-> id, user_id |-> u, module_id |-> m, completion_percentage |-> completion,
     mastery_level |-> mastery, insights_gained |-> insights, questions_asked |-> questions,
     total_conversations |-> convs, total_messages |-> msgs, time_spent |-> 0]

\* ---------------------------------------------------------------- actions
FaultPoints == {"user", "module", "L1", "L2", "L3", "L4"}

\* a query can fail only if it is executed: the layers run only when both
\* lookups returned a row
Executed(u, m, faults) ==
    LET lookups == faults \cap {"user", "module"}
    IN (faults \ lookups # {}) => (lookups = {} /\ UserRow(u).found /\ ModuleRow(m).found)

TieBreaks == {"asc", "desc"}

\* variant: assembling touches the conversations it read
AssembleContextTouching(u, m, current_message, cid, faults, tb) ==
    /\ ret = NoRet
    /\ Executed(u, m, faults)
    /\ ret' = [op |-> "assemble", user_id |-> u, module_id |-> m,
               current_message |-> current_message, conversation_id |-> cid,
               faults |-> faults,
               out |-> AssembleEnhancedContext(u, m, current_message, cid, faults, tb)]
    /\ conversations' =
          [i \in DOMAIN conversations |->
              IF conversations[i].user_id = u /\ conversations[i].module_id = m
                THEN [conversations[i] EXCEPT !.updated_at = @ + 1]
                ELSE conversations[i]]
    /\ UNCHANGED <<users, modules, onboarding, memory_summaries, user_progress,
                   ops, arg, sessions, socket, chat, tracker>>

\* GET /memory-performance/{module_id} and the chat endpoints: one run of
\* assemble_enhanced_context; the store is only read
AssembleContext(u, m, current_message, cid, faults, tb) ==
    /\ ret = NoRet
    /\ Executed(u, m, faults)
    /\ ret' = [op |-> "assemble", user_id |-> u, module_id |-> m,
               current_message |-> current_message, conversation_id |-> cid,
               faults |-> faults,
               out |-> AssembleEnhancedContext(u, m, current_message, cid, faults, tb)]
    /\ UNCHANGED <<store, ops, arg, sessions, socket, chat, tracker>>

\* the response is handed to the caller
Respond ==
    /\ ret # NoRet
    /\ ret' = NoRet
    /\ UNCHANGED <<store, ops, arg, sessions, socket, chat, tracker>>

\* ------------------------------------------------------------ persistence
\* rows of a table for one (user, module) pair
RowsOf(table, u, m) == SelectSeq(table, LAMBDA r : r.user_id = u /\ r.module_id = m)

\* the index of the row Query.first() returns for (u, m)
FirstIndex(table, u, m) ==
    CHOOSE i \in DOMAIN table :
        /\ table[i].user_id = u /\ table[i].module_id = m
        /\ \A j \in 1..(i - 1) : ~(table[j].user_id = u /\ table[j].module_id = m)

\* variant: an existing summary of the pair is overwritten instead of a row
\* being added
SaveMemorySummaryUpsert(u, m, what_learned, how_learned, connections_made, confidence_level, fail) ==
    /\ ret = NoRet
    /\ ops < MaxOps
    /\ Len(memory_summaries) < MaxSummaries
    /\ IF fail
         THEN /\ memory_summaries' = memory_summaries
              /\ ret' = [op |-> "save_memory_summary", ok |-> FALSE, user_id |-> u,
                         module_id |-> m, confidence_level |-> confidence_level,
                         commits |-> 1, failed |-> fail]
         ELSE /\ memory_summaries' =
                    IF RowsOf(memory_summaries, u, m) # <<>>
                      THEN [memory_summaries EXCEPT
                               ![FirstIndex(memory_summaries, u, m)].what_learned = what_learned,
                               ![FirstIndex(memory_summaries, u, m)].confidence_level =
                                   confidence_level]
                      ELSE Append(memory_summaries,
                              SummaryRow(Len(memory_summaries) + 1, u, m, what_learned,
                                         how_learned, connections_made, confidence_level, 9))
              /\ ret' = [op |-> "save_memory_summary", ok |-> TRUE, user_id |-> u,
                         module_id |-> m, confidence_level |-> confidence_level,
                         commits |-> 1, failed |-> fail]
    /\ ops' = ops + 1
    /\ UNCHANGED <<users, modules, onboarding, conversations, user_progress, arg, sessions, socket, chat, tracker>>

\* save_memory_summary: add the row and commit; on an exception roll back and
\* return False
SaveMemorySummary(u, m, what_learned, how_learned, connections_made, confidence_level, fail) ==
    /\ ret = NoRet
    /\ ops < MaxOps
    /\ Len(memory_summaries) < MaxSummaries
    /\ IF fail
         THEN /\ memory_summaries' = memory_summaries
              /\ ret' = [op |-> "save_memory_summary", ok |-> FALSE, user_id |-> u,
                         module_id |-> m, confidence_level |-> confidence_level,
                         commits |-> 1, failed |-> fail]
         ELSE /\ memory_summaries' =
                    Append(memory_summaries,
                           SummaryRow(Len(memory_summaries) + 1, u, m, what_learned,
                                      how_learned, connections_made, confidence_level, 9))
              /\ ret' = [op |-> "save_memory_summary", ok |-> TRUE, user_id |-> u,
                         module_id |-> m, confidence_level |-> confidence_level,
                         commits |-> 1, failed |-> fail]
    /\ ops' = ops + 1
    /\ UNCHANGED <<users, modules, onboarding, conversations, user_progress, arg, sessions, socket, chat, tracker>>

\* POST /memory/summary for the authenticated user u: the same insert; an
\* exception becomes HTTP 500
CreateMemorySummary(u, m, what_learned, how_learned, connections_made, confidence_level, fail) ==
    /\ ret = NoRet
    /\ ops < MaxOps
    /\ Len(memory_summaries) < MaxSummaries
    /\ IF fail
         THEN /\ memory_summaries' = memory_summaries
              /\ ret' = [op |-> "create_memory_summary", status |-> 500, user_id |-> u,
                         module_id |-> m, confidence_level |-> confidence_level]
         ELSE /\ memory_summaries' =
                    Append(memory_summaries,
                           SummaryRow(Len(memory_summaries) + 1, u, m, what_learned,
                                      how_learned, connections_made, confidence_level, 9))
              /\ ret' = [op |-> "create_memory_summary", status |-> 200, user_id |-> u,
                         module_id |-> m, confidence_level |-> confidence_level]
    /\ ops' = ops + 1
    /\ UNCHANGED <<users, modules, onboarding, conversations, user_progress, arg, sessions, socket, chat, tracker>>

\* variant of the write: a row is added on every call
ProgressAfterUpdateAlwaysInsert(u, m, completion_percentage, insights_gained, questions_asked) ==
    Append(user_progress,
           ProgressRow(Len(user_progress) + 1, u, m, completion_percentage,
                       "beginner", insights_gained, questions_asked, 0, 0))

\* the write of update_user_progress: create the record of the pair or
\* overwrite its completion and add to its counters; mastery_level is never
\* assigned (a new row takes the column default "beginner")
ProgressAfterUpdate(u, m, completion_percentage, insights_gained, questions_asked) ==
    IF RowsOf(user_progress, u, m) = <<>>
      THEN Append(user_progress,
                  ProgressRow(Len(user_progress) + 1, u, m, completion_percentage,
                              "beginner", insights_gained, questions_asked, 0, 0))
      ELSE LET k == FirstIndex(user_progress, u, m)
           IN [user_progress EXCEPT
                  ![k].completion_percentage = completion_percentage,
                  ![k].insights_gained = @ + insights_gained,
                  ![k].questions_asked = @ + questions_asked]

\* variant: a failed commit is attempted again and the second attempt writes
UpdateUserProgressRetry(u, m, completion_percentage, insights_gained, questions_asked, fail) ==
    /\ ret = NoRet
    /\ ops < MaxOps
    /\ user_progress' = ProgressAfterUpdate(u, m, completion_percentage, insights_gained,
                                            questions_asked)
    /\ ret' = [op |-> "update_user_progress", ok |-> TRUE, user_id |-> u,
               module_id |-> m, completion_percentage |-> completion_percentage,
               commits |-> IF fail THEN 2 ELSE 1, failed |-> fail]
    /\ ops' = ops + 1
    /\ UNCHANGED <<users, modules, onboarding, conversations, memory_summaries, arg, sessions, socket, chat, tracker>>

\* update_user_progress: look the record up, write, commit once; on an
\* exception roll back and return False
UpdateUserProgress(u, m, completion_percentage, insights_gained, questions_asked, fail) ==
    /\ ret = NoRet
    /\ ops < MaxOps
    /\ IF fail
         THEN /\ user_progress' = user_progress
              /\ ret' = [op |-> "update_user_progress", ok |-> FALSE, user_id |-> u,
                         module_id |-> m, completion_percentage |-> completion_percentage,
                         commits |-> 1, failed |-> fail]
         ELSE /\ user_progress' = ProgressAfterUpdate(u, m, completion_percentage,
                                                      insights_gained, questions_asked)
              /\ ret' = [op |-> "update_user_progress", ok |-> TRUE, user_id |-> u,
                         module_id |-> m, completion_percentage |-> completion_percentage,
                         commits |-> 1, failed |-> fail]
    /\ ops' = ops + 1
    /\ UNCHANGED <<users, modules, onboarding, conversations, memory_summaries, arg, sessions, socket, chat, tracker>>

RECURSIVE SumMessages(_)
SumMessages(convs) ==
    IF convs = <<>> THEN 0 ELSE Head(convs).messages + SumMessages(Tail(convs))

\* POST /progress/objectives/complete for the authenticated user u.  The
\* pending summary is counted by the COUNT query when the session autoflushes.
CompleteObjective(u, m, what_learned, connections_made, confidence_level, autoflush) ==
    /\ ret = NoRet
    /\ ops < MaxOps
    /\ Len(memory_summaries) < MaxSummaries
    /\ IF ~ModuleRow(m).found
         THEN /\ ret' = [op |-> "complete_objective", status |-> 404, user_id |-> u,
                         module_id |-> m, confidence_level |-> confidence_level]
              /\ UNCHANGED <<memory_summaries, user_progress>>
         ELSE LET mine == RowsOf(conversations, u, m)
                  total_conversations == Len(mine)
                  total_messages == SumMessages(mine)
                  memory_count == Len(RowsOf(memory_summaries, u, m))
                                    + (IF autoflush THEN 1 ELSE 0) + 1
                  completion_percentage ==
                      Min(memory_count * 20 + total_conversations * 15
                            + Min(total_messages, 25), 100)
                  Raise(r) ==
                      LET c == Min(r.completion_percentage + 4, 100)
                      IN [r EXCEPT !.completion_percentage = c,
                                   !.mastery_level = IF c >= 80 THEN "advanced"
                                                     ELSE IF c >= 50 THEN "intermediate"
                                                     ELSE "beginner"]
              IN /\ memory_summaries' =
                       Append(memory_summaries,
                              SummaryRow(Len(memory_summaries) + 1, u, m, what_learned,
                                         "Discovered through Socratic dialogue and reflection",
                                         connections_made, confidence_level, 8))
                 /\ user_progress' =
                       IF RowsOf(user_progress, u, m) = <<>>
                         THEN Append(user_progress,
                                 ProgressRow(Len(user_progress) + 1, u, m, completion_percentage,
                                     IF completion_percentage < 40 THEN "beginner"
                                     ELSE "intermediate",
                                     0, 0, total_conversations, total_messages))
                         ELSE LET k == FirstIndex(user_progress, u, m)
                              IN [user_progress EXCEPT ![k] = Raise(user_progress[k])]
                 /\ ret' = [op |-> "complete_objective", status |-> 200, user_id |-> u,
                            module_id |-> m, confidence_level |-> confidence_level]
    /\ ops' = ops + 1
    /\ UNCHANGED <<users, modules, onboarding, conversations, arg, sessions, socket, chat, tracker>>

\* json.loads(module.learning_objectives) if module.learning_objectives else []
\* and the len() of the result
ObjectivesOf(module) ==
    CASE module.learning_objectives = "" -> [raised |-> FALSE, len |-> 0]
      [] module.learning_objectives = "[\"Define framing\"]" -> [raised |-> FALSE, len |-> 1]
      [] OTHER -> [raised |-> TRUE, len |-> 0]

\* time of one conversation in minutes: max(updated_at - created_at, 5) when
\* it has messages; the seeded conversations were created and updated within
\* five minutes
ConversationMinutes(conv) == IF conv.messages > 0 THEN 5 ELSE 0

RECURSIVE SumMinutes(_)
SumMinutes(convs) ==
    IF convs = <<>> THEN 0 ELSE ConversationMinutes(Head(convs)) + SumMinutes(Tail(convs))

\* GET /modules/{module_id} for the authenticated user u: the completion is
\* recomputed as summaries per objective and written back to the record of
\* the pair.  Text that is not JSON raises in the try block and again in the
\* except block, so the request ends with HTTP 500 and nothing is written.
GetModuleDetails(u, m) ==
    /\ ret = NoRet
    /\ IF ~ModuleRow(m).found
         THEN /\ ret' = [op |-> "get_module_details", status |-> 404, user_id |-> u,
                         module_id |-> m, completion_percentage |-> 0]
              /\ user_progress' = user_progress
         ELSE LET module == ModuleRow(m).row
                  mine == RowsOf(conversations, u, m)
                  total_conversations == Len(mine)
                  total_messages == SumMessages(mine)
                  total_time_spent == SumMinutes(mine)
                  memory_summaries_count == Len(RowsOf(memory_summaries, u, m))
                  objectives == ObjectivesOf(module)
                  completion_percentage ==
                      (memory_summaries_count * 100) \div Max(objectives.len, 1)
              IN IF objectives.raised
                   THEN /\ ret' = [op |-> "get_module_details", status |-> 500, user_id |-> u,
                                   module_id |-> m, completion_percentage |-> 0]
                        /\ user_progress' = user_progress
                   ELSE /\ user_progress' =
                             IF RowsOf(user_progress, u, m) = <<>>
                               THEN Append(user_progress,
                                       [ProgressRow(Len(user_progress) + 1, u, m,
                                                    completion_percentage, "beginner", 0, 0,
                                                    total_conversations, total_messages)
                                          EXCEPT !.time_spent = total_time_spent])
                               ELSE LET k == FirstIndex(user_progress, u, m)
                                    IN [user_progress EXCEPT
                                          ![k].completion_percentage = completion_percentage,
                                          ![k].total_conversations = total_conversations,
                                          ![k].total_messages = total_messages,
                                          ![k].time_spent = total_time_spent]
                        /\ ret' = [op |-> "get_module_details", status |-> 200, user_id |-> u,
                                   module_id |-> m,
                                   completion_percentage |-> completion_percentage]
    /\ UNCHANGED <<users, modules, onboarding, conversations, memory_summaries, ops, arg, sessions, socket, chat, tracker>>

MessageSamples == {<<>>, <<"why", "media", "?">>}

InitSeed ==
    /\ users = UserIds
    /\ modules = [i \in ModuleIds |-> ModuleSeed(i)]
    /\ onboarding = SurveySeed
    /\ ops = 0
    /\ ret = NoRet

\* calls served one at a time, no websocket connection
InitSequential ==
    /\ InitSeed
    /\ sessions = <<>>
    /\ socket = NoSocket
    /\ chat = NoChat
    /\ tracker = NoTracker

OtherJsonSamples == {JNull, JInvalid, JList(MaxMsgs, "communication")}

InitAssemble ==
    /\ InitSequential
    /\ arg = NoArg
    /\ \E j1 \in JsonSamples, j2 \in OtherJsonSamples, owner \in UserIds, m2 \in ModuleIds :
          conversations = <<ConversationRow(1, 1, 1, 1, j1, 0),
                            ConversationRow(2, owner, m2, 2, j2, 0)>>
    /\ memory_summaries = <<SummaryRow(1, 1, 2, "framing", "dialogue", "links to module 1", 9, 9)>>
    /\ user_progress = <<ProgressRow(1, 2, 1, 40, "beginner", 0, 0, 0, 0)>>

\* calls are made one at a time: a call starts when none is in progress
NextAssemble ==
    \/ /\ ret = NoRet
       /\ \E u \in CallUserIds, m \in CallModuleIds, msg \in MessageSamples,
             cid \in 0..2, faults \in SUBSET FaultPoints, tb \in TieBreaks :
             AssembleContext(u, m, msg, cid, faults, tb)
    \/ Respond

SpecAssemble == InitAssemble /\ [][NextAssemble]_vars

\* the authenticated user of the endpoint calls (Depends(get_current_user))
CurrentUser == 1

\* confidences callers pass, in tenths: below 0, inside [0, 1], above 1
ConfidenceSamples == {-2, 8, 14}

CompletionSamples == {10, 50, 90}

Init ==
    /\ InitSequential
    /\ arg = NoArg
    /\ conversations = <<ConversationRow(1, 1, 1, 1, JList(7, "media"), 7),
                         ConversationRow(2, 1, 1, 2, JNull, 25)>>
    /\ memory_summaries = <<>>
    /\ user_progress = <<>>

Next ==
    \/ /\ ret = NoRet
       /\ \E u \in UserIds, m \in ModuleIds, conf \in ConfidenceSamples, fail \in BOOLEAN :
             SaveMemorySummary(u, m, "framing", "dialogue", "links to module 1", conf, fail)
    \/ /\ ret = NoRet
       /\ \E m \in ModuleIds, conf \in ConfidenceSamples, fail \in BOOLEAN :
             CreateMemorySummary(CurrentUser, m, "framing", "dialogue", "links to module 1",
                                 conf, fail)
    \/ /\ ret = NoRet
       /\ \E u \in UserIds, m \in ModuleIds, c \in CompletionSamples, fail \in BOOLEAN :
             UpdateUserProgress(u, m, c, 1, 2, fail)
    \/ /\ ret = NoRet
       /\ \E m \in CallModuleIds, conf \in ConfidenceSamples, autoflush \in BOOLEAN :
             CompleteObjective(CurrentUser, m, "agenda setting", "", conf, autoflush)
    \/ Respond

Spec == Init /\ [][Next]_vars

\* the persistence calls together with the module detail read, which writes
\* the progress record back
NextDetails ==
    \/ Next
    \/ /\ ret = NoRet
       /\ \E m \in CallModuleIds : GetModuleDetails(CurrentUser, m)

SpecDetails == Init /\ [][NextDetails]_vars

\* ------------------------------------------------------ progress formula
\* Percentages are in twentieths of a percent and the time in tenths of a
\* minute, so that total_time / 2 is exact: t tenths of a minute give t
\* twentieths of a percent.
\* variant: the message factor is capped at 20 instead of 25
CalculateRealProgressCompletionLowCap(total_conversations, total_messages, memory_count, total_time) ==
    LET completion_factors ==
            [conversations |-> 20 * Min(total_conversations * 20, 30),
             messages |-> 20 * Min(total_messages * 2, 20),
             memory |-> 20 * Min(memory_count * 15, 30),
             time |-> Min(total_time, 20 * 15)]
    IN Min(completion_factors.conversations + completion_factors.messages
             + completion_factors.memory + completion_factors.time, 20 * 100)

\* modules.py: completion_factors and completion_percentage
CalculateRealProgressCompletion(total_conversations, total_messages, memory_count, total_time) ==
    LET completion_factors ==
            [conversations |-> 20 * Min(total_conversations * 20, 30),
             messages |-> 20 * Min(total_messages * 2, 25),
             memory |-> 20 * Min(memory_count * 15, 30),
             time |-> Min(total_time, 20 * 15)]
    IN Min(completion_factors.conversations + completion_factors.messages
             + completion_factors.memory + completion_factors.time, 20 * 100)

\* progress.py: completion_factors and overall_completion
DetailedProgressCompletion(total_conversations, total_messages, memory_count, total_time) ==
    LET completion_factors ==
            [conversations |-> 20 * Min(total_conversations * 20, 30),
             messages |-> 20 * Min(total_messages * 2, 25),
             memory |-> 20 * Min(memory_count * 15, 30),
             time |-> Min(total_time, 20 * 15)]
    IN Min(completion_factors.conversations + completion_factors.messages
             + completion_factors.memory + completion_factors.time, 20 * 100)

\* api.py: completion_factors and total_completion
SampleProgressCompletion(total_conversations, total_messages, memory_count, total_time) ==
    LET completion_factors ==
            [conversations_factor |-> 20 * Min(total_conversations * 20, 30),
             messages_factor |-> 20 * Min(total_messages * 2, 25),
             memory_factor |-> 20 * Min(memory_count * 15, 30),
             time_factor |-> Min(total_time, 20 * 15)]
    IN Min(completion_factors.conversations_factor + completion_factors.messages_factor
             + completion_factors.memory_factor + completion_factors.time_factor, 20 * 100)

\* the mastery level the endpoints report for a computed completion
ComputedMastery(completion) ==
    IF completion >= 20 * 80 THEN "advanced"
    ELSE IF completion >= 20 * 50 THEN "intermediate"
    ELSE IF completion >= 20 * 20 THEN "beginner"
    ELSE "novice"

\* round(x, 1), in tenths of a percent.  A value halfway between two tenths
\* goes to the one its binary representation is nearer to: either of them.
Round1(completion) ==
    IF completion % 2 = 0 THEN {completion \div 2}
    ELSE {completion \div 2, completion \div 2 + 1}

ProgressCall == arg.kind = "progress" /\ ret = NoRet

CalculateRealProgress ==
    /\ ProgressCall
    /\ LET c == CalculateRealProgressCompletion(arg.total_conversations, arg.total_messages,
                                                arg.memory_count, arg.total_time)
       IN \E r \in Round1(c) :
             ret' = [op |-> "calculate_real_progress", completion |-> c,
                     mastery_level |-> ComputedMastery(c), completion_percentage |-> r]
    /\ UNCHANGED <<store, ops, arg, sessions, socket, chat, tracker>>

GetDetailedProgress ==
    /\ ProgressCall
    /\ LET c == DetailedProgressCompletion(arg.total_conversations, arg.total_messages,
                                           arg.memory_count, arg.total_time)
       IN \E r \in Round1(c) :
             ret' = [op |-> "get_detailed_progress", completion |-> c,
                     mastery_level |-> ComputedMastery(c), completion_percentage |-> r]
    /\ UNCHANGED <<store, ops, arg, sessions, socket, chat, tracker>>

GetSampleProgressCalculation ==
    /\ ProgressCall
    /\ LET c == SampleProgressCompletion(arg.total_conversations, arg.total_messages,
                                         arg.memory_count, arg.total_time)
       IN ret' = [op |-> "get_sample_progress_calculation", completion |-> c]
    /\ UNCHANGED <<store, ops, arg, sessions, socket, chat, tracker>>

MessageCountSamples == {0, 1, 12, 13, 15}

\* tenths of a minute
TimeSamples == {0, 50, 51, 299, 300, 400}

InitProgress ==
    /\ InitSequential
    /\ conversations = <<>>
    /\ memory_summaries = <<>>
    /\ user_progress = <<>>
    /\ \E c \in 0..MaxCount, n \in MessageCountSamples, k \in 0..MaxCount, t \in TimeSamples :
          arg = [kind |-> "progress", total_conversations |-> c, total_messages |-> n,
                 memory_count |-> k, total_time |-> t]

NextProgress ==
    \/ CalculateRealProgress
    \/ GetDetailedProgress
    \/ GetSampleProgressCalculation
    \/ Respond

SpecProgress == InitProgress /\ [][NextProgress]_vars

\* ---------------------------------------------------- Socratic compliance
\* A reply is the sequence of its characters.
\* str.count(ch)
CountChar(text, ch) == Cardinality({i \in DOMAIN text : text[i] = ch})

\* str.split(sep) for a one-character separator
RECURSIVE SplitOn(_, _)
SplitOn(text, sep) ==
    IF \A i \in DOMAIN text : text[i] # sep THEN <<text>>
    ELSE LET k == CHOOSE i \in DOMAIN text :
                     text[i] = sep /\ \A j \in 1..(i - 1) : text[j] # sep
         IN <<SubSeq(text, 1, k - 1)>> \o SplitOn(SubSeq(text, k + 1, Len(text)), sep)

\* bool(s.strip())
StripTruthy(text) == \E i \in DOMAIN text : text[i] # " "

\* variant: blank segments are counted as sentences too
AnalyzeSocraticComplianceAllSegments(ai_response) ==
    LET question_count == CountChar(ai_response, "?")
        sentences == Len(SplitOn(ai_response, "."))
        high == 10 * question_count >= 7 * Max(sentences, 1)
        medium == 10 * question_count >= 4 * Max(sentences, 1)
    IN [question_count |-> question_count,
        sentences |-> sentences,
        socratic_compliance |-> IF high THEN "HIGH" ELSE IF medium THEN "MEDIUM" ELSE "LOW",
        effectiveness_score |-> IF high THEN 90 ELSE IF medium THEN 70 ELSE 40,
        engagement_level |->
            IF question_count >= 3 /\ Len(ai_response) > 100 THEN "HIGH" ELSE "MEDIUM"]

\* variant: the score is reported on a 0-100 scale
AnalyzeSocraticCompliancePercentScore(ai_response) ==
    LET question_count == CountChar(ai_response, "?")
        sentences == Len(SelectSeq(SplitOn(ai_response, "."), StripTruthy))
        high == 10 * question_count >= 7 * Max(sentences, 1)
        medium == 10 * question_count >= 4 * Max(sentences, 1)
    IN [question_count |-> question_count,
        sentences |-> sentences,
        socratic_compliance |-> IF high THEN "HIGH" ELSE IF medium THEN "MEDIUM" ELSE "LOW",
        effectiveness_score |-> IF high THEN 9000 ELSE IF medium THEN 7000 ELSE 4000,
        engagement_level |->
            IF question_count >= 3 /\ Len(ai_response) > 100 THEN "HIGH" ELSE "MEDIUM"]

\* _analyze_socratic_compliance; question_ratio >= 0.7 is compared as
\* 10 * question_count >= 7 * max(sentences, 1); the score is in hundredths
AnalyzeSocraticCompliance(ai_response) ==
    LET question_count == CountChar(ai_response, "?")
        sentences == Len(SelectSeq(SplitOn(ai_response, "."), StripTruthy))
        high == 10 * question_count >= 7 * Max(sentences, 1)
        medium == 10 * question_count >= 4 * Max(sentences, 1)
    IN [question_count |-> question_count,
        sentences |-> sentences,
        socratic_compliance |-> IF high THEN "HIGH" ELSE IF medium THEN "MEDIUM" ELSE "LOW",
        effectiveness_score |-> IF high THEN 90 ELSE IF medium THEN 70 ELSE 40,
        engagement_level |->
            IF question_count >= 3 /\ Len(ai_response) > 100 THEN "HIGH" ELSE "MEDIUM"]

\* the SocraticAnalysis constructor validates its fields: question_count is
\* an int and effectiveness_score lies in [0.0, 1.0] (hundredths: 0..100), or a
\* ValidationError is raised
SocraticAnalysis(fields) ==
    IF fields.question_count \in Int /\ fields.effectiveness_score \in 0..100
      THEN fields
      ELSE [raised |-> TRUE]

AnalyzeReply ==
    /\ arg.kind = "reply"
    /\ ret = NoRet
    /\ ret' = [op |-> "analyze_socratic_compliance",
               out |-> SocraticAnalysis(AnalyzeSocraticCompliance(arg.ai_response))]
    /\ UNCHANGED <<store, ops, arg, sessions, socket, chat, tracker>>

ReplyChars == {"?", ".", "a", " "}

Replies == UNION {[1..n -> ReplyChars] : n \in 0..MaxReplyLen}

InitCompliance ==
    /\ InitSequential
    /\ conversations = <<>>
    /\ memory_summaries = <<>>
    /\ user_progress = <<>>
    /\ \E r \in Replies : arg = [kind |-> "reply", ai_response |-> r]

NextCompliance ==
    \/ AnalyzeReply
    \/ Respond

SpecCompliance == InitCompliance /\ [][NextCompliance]_vars

\* ===================================================== properties: assembly
Called == ret.op = "assemble"

Assembled == Called /\ ret.out.path = "assembled"

LayerFaults == {"L1", "L2", "L3", "L4"}

\* the stored conversation a layer retained, and the messages its text holds
StoredConversation(id) == CHOOSE c \in Range(conversations) : c.id = id

StoredMessageCount(c) == IF c.messages_json.kind = "list" THEN c.messages_json.n ELSE 0

\* C1: every call of assemble_enhanced_context, whatever ids it is given and
\* whichever of the user lookup, module lookup and layer queries fail, returns
\* a result (no exception reaches the caller) whose prompt is non-empty.
C1_Totality ==
    Called => (~ret.out.raised /\ PromptLen(ret.out.assembled_prompt) > 0)

\* a call for a user id with no row during which the module lookup failed
C1_Witness ==
    /\ Called
    /\ ret.user_id \notin users
    /\ "module" \in ret.faults
    /\ PromptLen(ret.out.assembled_prompt) > 0

PriorKnowledgeMarkers == {"PRIOR LEARNING CONNECTIONS", "MASTERED CONCEPTS"}

CoreMarkers ==
    {"STUDENT PROFILE", "MODULE CONTEXT", "CONVERSATION STATE", "=== CORE INSTRUCTION ==="}

\* C2 (as stated): the returned prompt contains all six section markers
\* (student profile, module context, conversation state, prior knowledge,
\* current message, closing instruction) in every outcome.
C2_AllSixMarkers ==
    Called =>
        LET p == ret.out.assembled_prompt
        IN /\ \A mk \in CoreMarkers : HasMarker(p, mk)
           /\ \E mk \in PriorKnowledgeMarkers : HasMarker(p, mk)
           /\ HasMarker(p, "STUDENT MESSAGE")

\* C2 (amended): a prompt assembled from the four layers always contains the
\* student profile, module context, conversation state and closing
\* instruction markers; the prior-learning marker is present exactly when
\* Layer 4 returned a module insight, the mastered-concepts marker exactly
\* when it returned a mastered concept, and the student-message marker
\* exactly when the current message is non-empty.  The prompt returned when
\* the user or module is missing contains none of the markers.
C2_MarkersWhenPresent ==
    Called =>
        LET p == ret.out.assembled_prompt
        IN IF ret.out.path = "assembled"
             THEN LET pk == ret.out.memory_layers.prior_knowledge
                  IN /\ \A mk \in CoreMarkers : HasMarker(p, mk)
                     /\ HasMarker(p, "PRIOR LEARNING CONNECTIONS")
                           <=> pk.prior_module_insights # <<>>
                     /\ HasMarker(p, "MASTERED CONCEPTS") <=> pk.mastered_concepts # <<>>
                     /\ HasMarker(p, "STUDENT MESSAGE") <=> ret.current_message # <<>>
             ELSE \A mk \in CoreMarkers \cup PriorKnowledgeMarkers \cup {"STUDENT MESSAGE"} :
                     ~HasMarker(p, mk)

\* an assembled prompt for an empty message and a student with no prior
\* module insight and no mastered concept
C2_Witness ==
    /\ Assembled
    /\ ret.current_message = <<>>
    /\ "L4" \notin ret.faults
    /\ ret.out.memory_layers.prior_knowledge.prior_module_insights = <<>>
    /\ ret.out.memory_layers.prior_knowledge.mastered_concepts = <<>>
    /\ ~HasMarker(ret.out.assembled_prompt, "STUDENT MESSAGE")
    /\ HasMarker(ret.out.assembled_prompt, "=== CORE INSTRUCTION ===")

TurnPhase(n) ==
    IF n < 3 THEN "opening" ELSE IF n < 8 THEN "exploration" ELSE "deepening"

UserTurns(n) == Cardinality({i \in 1..n : i % 2 = 1})

Retained(u, m) ==
    LET mine == {c \in Range(conversations) :
                    c.user_id = u /\ c.module_id = m /\ c.messages_json.kind # "null"}
    IN CHOOSE c \in mine : \A d \in mine : d.updated_at <= c.updated_at

\* C9: every prior-module insight of Layer 4 has message_count equal to the
\* number of messages of the retained conversation (0 when its text is empty
\* or cannot be parsed) and connection_strength = min(message_count / 10, 1),
\* which lies in [0, 1].  Strengths are in tenths.
C9_ConnectionStrength ==
    Assembled =>
        LET insights == ret.out.memory_layers.prior_knowledge.prior_module_insights
        IN \A i \in DOMAIN insights :
              LET n == StoredMessageCount(Retained(ret.user_id, insights[i].module_id))
              IN /\ insights[i].message_count = n
                 /\ insights[i].connection_strength = (IF n >= 10 THEN 10 ELSE n)
                 /\ insights[i].connection_strength \in 0..10

\* an insight for a conversation of more than 10 messages, capped at 1.0
C9_Witness ==
    /\ Assembled
    /\ \E i \in DOMAIN ret.out.memory_layers.prior_knowledge.prior_module_insights :
          LET ins == ret.out.memory_layers.prior_knowledge.prior_module_insights[i]
          IN ins.message_count > 10 /\ ins.connection_strength = 10

\* C10: when queries of some of Layers 1-4 fail in a call for an existing
\* user and module, exactly the failed layers hold their fallback values, the
\* others hold what they hold in the same call without failures, and the
\* prompt is assembled from the four values.
C10_LayerIsolation ==
    (Called /\ ret.faults \cap LayerFaults # {}) =>
        LET base == AssembleEnhancedContext(ret.user_id, ret.module_id, ret.current_message,
                                            ret.conversation_id, {}, "desc")
            out == ret.out
        IN /\ out.path = "assembled"
           /\ base.path = "assembled"
           /\ out.memory_layers.system_data =
                 IF "L1" \in ret.faults THEN SystemDataFallback
                 ELSE base.memory_layers.system_data
           /\ out.memory_layers.module_data =
                 IF "L2" \in ret.faults THEN ModuleDataFallback(ModuleRow(ret.module_id).row)
                 ELSE base.memory_layers.module_data
           /\ out.memory_layers.conversation_data =
                 IF "L3" \in ret.faults THEN ConversationDataFallback
                 ELSE base.memory_layers.conversation_data
           /\ out.memory_layers.prior_knowledge =
                 IF "L4" \in ret.faults THEN PriorKnowledgeFallback
                 ELSE base.memory_layers.prior_knowledge
           /\ out.assembled_prompt =
                 AssembleOptimizedPrompt(out.memory_layers.system_data,
                                         out.memory_layers.module_data,
                                         out.memory_layers.conversation_data,
                                         out.memory_layers.prior_knowledge,
                                         ret.current_message)

\* only the conversation query failed: Layer 3 is on its fallback while
\* Layer 4 still reports the insight it found
C10_Witness ==
    /\ Assembled
    /\ ret.faults = {"L3"}
    /\ ret.out.memory_layers.conversation_data.state = "error_fallback"
    /\ ret.out.memory_layers.prior_knowledge.prior_module_insights # <<>>
    /\ HasMarker(ret.out.assembled_prompt, "PRIOR LEARNING CONNECTIONS")

\* ================================================== properties: persistence
\* C3: every stored memory summary has a confidence in [0, 1] (0..10 tenths):
\* a confidence above 1 is stored as 1.0, one below 0 as 0.0.
C3_ConfidenceClamped ==
    \A i \in DOMAIN memory_summaries : memory_summaries[i].confidence_level \in 0..10

\* C4 (as stated): save_memory_summary is an upsert, so after a successful
\* call the pair (user_id, module_id) has exactly one summary row.
C4_SaveIsUpsert ==
    [][(ret = NoRet /\ ret'.op = "save_memory_summary" /\ ret'.ok)
          => Len(RowsOf(memory_summaries', ret'.user_id, ret'.module_id)) = 1]_vars

\* C4 (amended): save_memory_summary never updates a row.  A successful call
\* appends exactly one row holding the call's values and leaves the existing
\* rows as they are, so two identical calls leave two rows for the pair; a
\* failed call leaves the table unchanged.
C4_SaveAppendsOneRow ==
    [][(ret = NoRet /\ ret'.op = "save_memory_summary")
          => IF ret'.ok
               THEN /\ Len(memory_summaries') = Len(memory_summaries) + 1
                    /\ SubSeq(memory_summaries', 1, Len(memory_summaries)) = memory_summaries
                    /\ LET new == memory_summaries'[Len(memory_summaries')]
                       IN /\ new.user_id = ret'.user_id
                          /\ new.module_id = ret'.module_id
                          /\ new.confidence_level = ret'.confidence_level
                    /\ Len(RowsOf(memory_summaries', ret'.user_id, ret'.module_id)) =
                          Len(RowsOf(memory_summaries, ret'.user_id, ret'.module_id)) + 1
               ELSE memory_summaries' = memory_summaries]_vars

\* a second successful save with the arguments of the first: the pair has two
\* rows that differ in their id only
C4_Witness ==
    /\ ret.op = "save_memory_summary"
    /\ ret.ok
    /\ LET rows == RowsOf(memory_summaries, ret.user_id, ret.module_id)
       IN /\ Len(rows) = 2
          /\ rows[1].id # rows[2].id
          /\ rows[1] = [rows[2] EXCEPT !.id = rows[1].id]

MasteryOf(completion) ==
    IF completion >= 80 THEN "advanced"
    ELSE IF completion >= 50 THEN "intermediate"
    ELSE IF completion >= 20 THEN "beginner"
    ELSE "novice"

\* C6: every stored progress record has the mastery level its completion
\* percentage gives: advanced from 80, intermediate from 50, beginner from 20,
\* novice below.
C6_MasteryByThresholds ==
    \A i \in DOMAIN user_progress :
        user_progress[i].mastery_level = MasteryOf(user_progress[i].completion_percentage)

\* ============================================== properties: pure functions
ProgressOps ==
    {"calculate_real_progress", "get_detailed_progress", "get_sample_progress_calculation"}

\* the four capped shares of the canonical formula, in percent
Capped(x, cap) == IF x > cap THEN cap ELSE x

\* C5: for all non-negative counts and times, each of the three endpoints
\* computes completion = min(min(conversations*20, 30) + min(messages*2, 25)
\* + min(memory_count*15, 30) + min(time_minutes/2, 15), 100).  Both sides are
\* in twentieths of a percent; the time is in tenths of a minute.
C5_CanonicalCompletion ==
    ret.op \in ProgressOps =>
        LET whole == Capped(arg.total_conversations * 20, 30)
                       + Capped(arg.total_messages * 2, 25)
                       + Capped(arg.memory_count * 15, 30)
            canonical == Capped(20 * whole + Capped(arg.total_time, 300), 2000)
        IN ret.completion = canonical

\* (2 conversations, 15 messages, 1 summary, 40 minutes) gives 85 percent
C5_Witness ==
    /\ ret.op = "calculate_real_progress"
    /\ arg.total_conversations = 2
    /\ arg.total_messages = 15
    /\ arg.memory_count = 1
    /\ arg.total_time = 400
    /\ ret.completion = 20 * 85

\* the first character of each non-blank segment between full stops
SentenceStarts(text) ==
    {i \in DOMAIN text :
        /\ text[i] \notin {".", " "}
        /\ \A j \in 1..(i - 1) :
              (\A k \in j..(i - 1) : text[k] # ".") => text[j] = " "}

\* C7: for every reply, question_count is the number of '?' characters and,
\* with sentence_count the number of non-blank segments between full stops
\* and ratio = question_count / max(sentence_count, 1), compliance is HIGH
\* when ratio >= 0.7, MEDIUM when 0.4 <= ratio < 0.7, LOW otherwise; a reply
\* without '?' is LOW.
C7_ComplianceClassification ==
    ret.op = "analyze_socratic_compliance" =>
        LET q == Len(SelectSeq(arg.ai_response, LAMBDA ch : ch = "?"))
            n == Cardinality(SentenceStarts(arg.ai_response))
            d == IF n >= 1 THEN n ELSE 1
        IN /\ ret.out.question_count = q
           /\ ret.out.socratic_compliance =
                 (IF 10 * q >= 7 * d THEN "HIGH"
                  ELSE IF 10 * q >= 4 * d THEN "MEDIUM" ELSE "LOW")
           /\ q = 0 => ret.out.socratic_compliance = "LOW"

\* a reply with 3 '?' across 4 sentences, rated HIGH
C7_Witness ==
    /\ ret.op = "analyze_socratic_compliance"
    /\ ret.out.question_count = 3
    /\ ret.out.sentences = 4
    /\ ret.out.socratic_compliance = "HIGH"

\* ================================================ properties: status flags
\* C11: in an assembled context a layer whose query raised has its status
\* flag false: onboarding_loaded for Layer 1, module_config_loaded for
\* Layer 2, conversation_analyzed for Layer 3, cross_module_connections for
\* Layer 4; a flag is true only if that layer's data was loaded.
C11_FailureVisibleInStatus ==
    Assembled =>
        LET s == ret.out.database_status
        IN /\ "L1" \in ret.faults => ~s.onboarding_loaded
           /\ "L2" \in ret.faults => ~s.module_config_loaded
           /\ "L3" \in ret.faults => ~s.conversation_analyzed
           /\ "L4" \in ret.faults => ~s.cross_module_connections

\* ================================================ properties: compliance
\* C12: for every reply string, the empty one included, the analyser returns
\* its record without raising, with effectiveness_score within [0, 1]; for
\* the empty reply question_count is 0 and the compliance is LOW.
C12_AnalyzerTotal ==
    ret.op = "analyze_socratic_compliance" =>
        /\ "raised" \notin DOMAIN ret.out
        /\ {"question_count", "socratic_compliance", "engagement_level",
            "effectiveness_score"} \subseteq DOMAIN ret.out
        /\ ret.out.effectiveness_score \in 0..100
        /\ ret.out.socratic_compliance \in {"HIGH", "MEDIUM", "LOW"}
        /\ arg.ai_response = <<>> =>
              ret.out.question_count = 0 /\ ret.out.socratic_compliance = "LOW"

\* the empty reply was analysed
C12_Witness ==
    /\ ret.op = "analyze_socratic_compliance"
    /\ arg.ai_response = <<>>
    /\ "raised" \notin DOMAIN ret.out
    /\ ret.out.question_count = 0
    /\ ret.out.effectiveness_score = 40

\* ================================================ properties: persistence
\* C13: a save_memory_summary or update_user_progress call whose write fails
\* returns False without raising, attempts the commit once (no retry), and
\* leaves the stored rows exactly as they were before the call.
C13_FailureLeavesStoreUnchanged ==
    [][(/\ ret = NoRet
        /\ ret'.op \in {"save_memory_summary", "update_user_progress"}
        /\ ret'.failed) =>
          /\ ret'.ok = FALSE
          /\ ret'.commits = 1
          /\ store' = store]_vars

\* a progress update failed on a pair whose record exists with another
\* completion: the record kept its value
C13_Witness ==
    /\ ret.op = "update_user_progress"
    /\ ret.failed
    /\ ~ret.ok
    /\ \E r \in Range(user_progress) :
          /\ r.user_id = ret.user_id
          /\ r.module_id = ret.module_id
          /\ r.completion_percentage # ret.completion_percentage

NSessions == 2

\* a request as it arrives: nothing looked up yet
NewSession(u, m, completion_percentage, insights_gained, questions_asked) ==
    [pc |-> "lookup", user_id |-> u, module_id |-> m,
     completion_percentage |-> completion_percentage,
     insights_gained |-> insights_gained, questions_asked |-> questions_asked,
     found |-> 0, loaded |-> [insights_gained |-> 0, questions_asked |-> 0],
     pending |-> "none", order |-> 0]

\* progress = db.query(UserProgress).filter(...).first(): the row is loaded
\* into the session with the values it has now
SessionLookup(s) ==
    /\ sessions[s].pc = "lookup"
    /\ LET rows == RowsOf(user_progress, sessions[s].user_id, sessions[s].module_id)
       IN sessions' =
            IF rows = <<>>
              THEN [sessions EXCEPT ![s].pc = "write", ![s].found = 0]
              ELSE [sessions EXCEPT ![s].pc = "write", ![s].found = rows[1].id,
                                    ![s].loaded = [insights_gained |-> rows[1].insights_gained,
                                                   questions_asked |-> rows[1].questions_asked]]
    /\ UNCHANGED <<store, ops, arg, ret, socket, chat, tracker>>

\* if not progress: db.add(UserProgress(...)) else: assign the completion and
\* add to the counters as loaded; nothing is sent to the database yet
SessionWrite(s) ==
    /\ sessions[s].pc = "write"
    /\ sessions' =
         IF sessions[s].found = 0
           THEN [sessions EXCEPT ![s].pc = "commit", ![s].pending = "insert"]
           ELSE [sessions EXCEPT ![s].pc = "commit", ![s].pending = "update",
                    ![s].loaded = [insights_gained |-> @.insights_gained
                                                          + sessions[s].insights_gained,
                                   questions_asked |-> @.questions_asked
                                                          + sessions[s].questions_asked]]
    /\ UNCHANGED <<store, ops, arg, ret, socket, chat, tracker>>

\* self.db.commit(): the pending INSERT, or the UPDATE of the loaded row by
\* its primary key, is flushed and committed; return True
SessionCommit(s) ==
    /\ sessions[s].pc = "commit"
    /\ user_progress' =
         IF sessions[s].pending = "insert"
           THEN Append(user_progress,
                       ProgressRow(Len(user_progress) + 1, sessions[s].user_id,
                                   sessions[s].module_id, sessions[s].completion_percentage,
                                   "beginner", sessions[s].insights_gained,
                                   sessions[s].questions_asked, 0, 0))
           ELSE [k \in DOMAIN user_progress |->
                    IF user_progress[k].id = sessions[s].found
                      THEN [user_progress[k] EXCEPT
                              !.completion_percentage = sessions[s].completion_percentage,
                              !.insights_gained = sessions[s].loaded.insights_gained,
                              !.questions_asked = sessions[s].loaded.questions_asked]
                      ELSE user_progress[k]]
    /\ ops' = ops + 1
    /\ sessions' = [sessions EXCEPT ![s].pc = "done", ![s].order = ops + 1]
    /\ UNCHANGED <<users, modules, onboarding, conversations, memory_summaries, arg, ret, socket, chat, tracker>>

InitRace ==
    /\ InitSeed
    /\ socket = NoSocket
    /\ chat = NoChat
    /\ tracker = NoTracker
    /\ arg = NoArg
    /\ conversations = <<>>
    /\ memory_summaries = <<>>
    /\ user_progress \in {<<>>, <<ProgressRow(1, CurrentUser, 1, 10, "beginner", 1, 2, 0, 0)>>}
    /\ sessions \in [1..NSessions ->
                       {NewSession(CurrentUser, 1, c, 1, 2) : c \in CompletionSamples}]

NextRace ==
    \/ \E s \in 1..NSessions : SessionLookup(s)
    \/ \E s \in 1..NSessions : SessionWrite(s)
    \/ \E s \in 1..NSessions : SessionCommit(s)

SpecRace == InitRace /\ [][NextRace]_vars

\* C15: when update_user_progress requests for one (user_id, module_id)
\* interleave at their lookups, writes and commits, every final state has
\* exactly one progress record of the pair, holding the completion written by
\* the request that committed last.
C15_OneRecordAfterRace ==
    (\A s \in DOMAIN sessions : sessions[s].pc = "done") =>
        \A s \in DOMAIN sessions :
            LET rows == RowsOf(user_progress, sessions[s].user_id, sessions[s].module_id)
            IN /\ Len(rows) = 1
               /\ sessions[s].order = Len(sessions) =>
                     rows[1].completion_percentage = sessions[s].completion_percentage

\* ================================================ properties: module layer
\* C16: the progress the module layer reports for a call for (user_id,
\* module_id) is the completion of the progress record of exactly that pair,
\* or 0 when the user has none; records of other users do not influence it.
C16_OwnProgressOnly ==
    (Assembled /\ "L2" \notin ret.faults) =>
        LET own == RowsOf(user_progress, ret.user_id, ret.module_id)
        IN ret.out.memory_layers.module_data.module_info.progress =
              (IF own # <<>> THEN own[1].completion_percentage ELSE 0)

\* ========================================================= websocket chat
\* websocket_endpoint: accept, send the welcome frame, then answer the text
\* frames of the client one at a time.  socket.frames are the text frames
\* received so far, socket.sent the frames sent, in order.
MaxFrames == 3

\* text frames a client sends: a JSON object with or without a "message"
\* key, valid JSON that is not an object, and text that is not JSON
FrameSamples ==
    {[kind |-> "object", message |-> <<"how", "?">>],
     [kind |-> "object", message |-> <<>>],
     [kind |-> "array", message |-> <<>>],
     [kind |-> "number", message |-> <<>>],
     [kind |-> "invalid", message |-> <<>>]}

\* json.loads(data) then message_data.get("message", ""): JSONDecodeError on
\* text that is not JSON, AttributeError on a list or a number
UserMessageOf(frame) ==
    CASE frame.kind = "invalid" -> [raised |-> "JSONDecodeError", user_message |-> <<>>]
      [] frame.kind = "object" -> [raised |-> "none", user_message |-> frame.message]
      [] OTHER -> [raised |-> "AttributeError", user_message |-> <<>>]

WelcomeFrame(module_id) ==
    [type |-> "system", message |-> <<"Connected to AI Tutor for Module", module_id>>]

AiResponseFrame(user_message) ==
    [type |-> "ai_response",
     message |-> <<"Thanks for your message: '">> \o user_message
                    \o <<"'. This is a basic WebSocket response.">>]

ErrorFrame == [type |-> "error", message |-> <<"Invalid JSON format">>]

\* await websocket.accept()
WsAccept(module_id) ==
    /\ socket.state = "none"
    /\ socket' = [state |-> "accepted", module_id |-> module_id, frames |-> <<>>,
                  sent |-> <<>>, closed_by |-> "none"]
    /\ UNCHANGED <<store, ops, arg, ret, sessions, chat, tracker>>

\* await websocket.send_text(json.dumps(welcome)), then wait in receive_text
WsWelcome ==
    /\ socket.state = "accepted"
    /\ socket' = [socket EXCEPT !.state = "open",
                                !.sent = Append(@, WelcomeFrame(socket.module_id))]
    /\ UNCHANGED <<store, ops, arg, ret, sessions, chat, tracker>>

\* one turn of the message loop: receive_text returns the frame; an object
\* is answered with ai_response, a JSONDecodeError with the error frame; any
\* other exception leaves the loop and the handler closes the connection
WsReceive(frame) ==
    /\ socket.state = "open"
    /\ Len(socket.frames) < MaxFrames
    /\ LET parsed == UserMessageOf(frame)
       IN socket' =
            CASE parsed.raised = "none" ->
                   [socket EXCEPT !.frames = Append(@, frame),
                                  !.sent = Append(@, AiResponseFrame(parsed.user_message))]
              [] parsed.raised = "JSONDecodeError" ->
                   [socket EXCEPT !.frames = Append(@, frame),
                                  !.sent = Append(@, ErrorFrame)]
              [] OTHER ->
                   [socket EXCEPT !.frames = Append(@, frame),
                                  !.state = "closed", !.closed_by = "server"]
    /\ UNCHANGED <<store, ops, arg, ret, sessions, chat, tracker>>

\* the client disconnects: receive_text raises WebSocketDisconnect, which is
\* logged
WsDisconnect ==
    /\ socket.state = "open"
    /\ socket' = [socket EXCEPT !.state = "closed", !.closed_by = "client"]
    /\ UNCHANGED <<store, ops, arg, ret, sessions, chat, tracker>>

InitWebSocket ==
    /\ InitSeed
    /\ arg = NoArg
    /\ conversations = <<>>
    /\ memory_summaries = <<>>
    /\ user_progress = <<>>
    /\ sessions = <<>>
    /\ socket = NoSocket
    /\ chat = NoChat
    /\ tracker = NoTracker

NextWebSocket ==
    \/ \E module_id \in CallModuleIds : WsAccept(module_id)
    \/ WsWelcome
    \/ \E frame \in FrameSamples : WsReceive(frame)
    \/ WsDisconnect

SpecWebSocket == InitWebSocket /\ [][NextWebSocket]_vars

\* C17: the first frame sent is the 'system' welcome; after it each text
\* frame of the client is answered with exactly one frame, 'ai_response'
\* with a non-empty message when the frame is valid JSON and 'error' when it
\* is not; the connection is closed only by the client's disconnect.
C17_OneReplyPerFrame ==
    socket.state \in {"open", "closed"} =>
        /\ Len(socket.sent) = 1 + Len(socket.frames)
        /\ socket.sent[1].type = "system"
        /\ \A i \in DOMAIN socket.frames :
              IF socket.frames[i].kind = "invalid"
                THEN socket.sent[i + 1].type = "error"
                ELSE /\ socket.sent[i + 1].type = "ai_response"
                     /\ socket.sent[i + 1].message # <<>>
        /\ socket.state = "closed" => socket.closed_by = "client"

\* ============================================== properties: stored ranges
\* C18: in every reachable state, whatever operations created or modified
\* the progress records (update_user_progress, objective completion, the
\* module detail read that writes back), every stored completion_percentage
\* lies within [0, 100].
C18_CompletionInRange ==
    \A r \in Range(user_progress) : r.completion_percentage \in 0..100

\* ======================================================= context metrics
\* The two _calculate_context_metrics functions as functions of the prompt
\* length: the method of EnhancedMemoryService and the helper of the
\* /memory/enhanced endpoint.  Scores are in thousandths.
LengthStep == 40
MaxLengthSteps == 110

PromptLengths == {k * LengthStep : k \in 0..MaxLengthSteps}

\* endpoints/memory.py: min(100, (4000 - len(prompt)) / 40)
EndpointOptimizationScore(total_chars) == Min(100 * 1000, ((4000 - total_chars) * 1000) \div 40)

ServiceContextMetrics ==
    /\ arg.kind = "prompt"
    /\ ret = NoRet
    /\ ret' = [op |-> "context_metrics", site |-> "memory_service",
               out |-> [total_chars |-> arg.total_chars,
                        optimization_score |-> OptimizationScore(arg.total_chars)]]
    /\ UNCHANGED <<store, ops, arg, sessions, socket, chat, tracker>>

EndpointContextMetrics ==
    /\ arg.kind = "prompt"
    /\ ret = NoRet
    /\ ret' = [op |-> "context_metrics", site |-> "endpoint",
               out |-> [total_chars |-> arg.total_chars,
                        optimization_score |-> EndpointOptimizationScore(arg.total_chars)]]
    /\ UNCHANGED <<store, ops, arg, sessions, socket, chat, tracker>>

InitMetrics ==
    /\ InitSequential
    /\ conversations = <<>>
    /\ memory_summaries = <<>>
    /\ user_progress = <<>>
    /\ \E n \in PromptLengths : arg = [kind |-> "prompt", total_chars |-> n]

NextMetrics ==
    \/ ServiceContextMetrics
    \/ EndpointContextMetrics
    \/ Respond

SpecMetrics == InitMetrics /\ [][NextMetrics]_vars

\* C19: for every prompt length, the empty prompt and prompts far beyond
\* the target included, the optimization_score of the context metrics lies
\* within [0, 1], at each place the metrics are computed.
C19_ScoreInUnitInterval ==
    ret.op = "context_metrics" => ret.out.optimization_score \in 0..1000

\* ===================================== properties: conversation resolution
\* C20: Layer 3 resolves its conversation in a fixed order: the conversation
\* of the supplied id when it belongs to the calling (user, module); else the
\* most recently updated conversation of that pair; else new_conversation
\* with an empty history.  A conversation of another user or module is never
\* used.  (A conversation whose stored text is a bare number cannot be read:
\* the layer is then on its error fallback and uses no conversation.)
C20_ResolutionOrder ==
    (Assembled /\ "L3" \notin ret.faults) =>
        LET cd == ret.out.memory_layers.conversation_data
            mine == {c \in Range(conversations) :
                        c.user_id = ret.user_id /\ c.module_id = ret.module_id}
            exact == {c \in mine : c.id = ret.conversation_id}
            expected == IF exact # {} THEN CHOOSE c \in exact : TRUE
                        ELSE CHOOSE c \in mine : \A d \in mine : d.updated_at <= c.updated_at
        IN IF mine = {}
             THEN cd.state = "new_conversation" /\ cd.message_history = <<>>
           ELSE IF expected.messages_json.kind = "scalar"
             THEN cd.state = "error_fallback"
           ELSE /\ cd.state = "active_conversation"
                /\ cd.conversation_id = expected.id
                /\ Len(cd.message_history) = Min(StoredMessageCount(expected), 10)

\* the supplied id names the older of two conversations of the pair and is
\* the one used
C20_Witness ==
    /\ Assembled
    /\ "L3" \notin ret.faults
    /\ ret.conversation_id = 1
    /\ ret.out.memory_layers.conversation_data.state = "active_conversation"
    /\ ret.out.memory_layers.conversation_data.conversation_id = 1
    /\ \E c \in Range(conversations) :
          c.id = 2 /\ c.user_id = ret.user_id /\ c.module_id = ret.module_id

\* ================================================ Layer 4 on larger stores
\* _inject_prior_knowledge called on stores with several modules, two
\* conversations in one module and equal update times.
NPriorModules == 5

PriorTimes == {1, 2}

\* the prior-knowledge layer of one call
InjectPrior(u, current_module_id, faults, tb) ==
    /\ ret = NoRet
    /\ ret' = [op |-> "inject_prior_knowledge", user_id |-> u,
               module_id |-> current_module_id, faults |-> faults,
               out |-> InjectPriorKnowledge(u, current_module_id, faults, tb)]
    /\ UNCHANGED <<store, ops, arg, sessions, socket, chat, tracker>>

\* user 1 has two conversations in module 2 and one in each of the modules 3
\* to 5; user 2 has none.  The second conversation of module 2 may have no
\* stored text (NULL).
InitPrior ==
    /\ users = UserIds
    /\ modules = [i \in 1..NPriorModules |-> ModuleSeed(i)]
    /\ onboarding = SurveySeed
    /\ ops = 0
    /\ ret = NoRet
    /\ arg = NoArg
    /\ sessions = <<>>
    /\ socket = NoSocket
    /\ chat = NoChat
    /\ tracker = NoTracker
    /\ \E t \in [1..5 -> PriorTimes], j \in {JNull, JList(5, "media")} :
          conversations = <<ConversationRow(1, 1, 2, t[1], JList(2, "media"), 0),
                            ConversationRow(2, 1, 2, t[2], j, 0),
                            ConversationRow(3, 1, 3, t[3], JList(3, "media"), 0),
                            ConversationRow(4, 1, 4, t[4], JList(4, "media"), 0),
                            ConversationRow(5, 1, 5, t[5], JInvalid, 0)>>
    /\ memory_summaries \in {<<>>,
                             <<SummaryRow(1, 1, 2, "framing", "dialogue", "", 9, 9),
                               SummaryRow(2, 1, 3, "agenda setting", "dialogue",
                                          "links to module 2", 5, 9)>>}
    /\ user_progress = <<>>

NextPrior ==
    \/ /\ ret = NoRet
       /\ \E u \in UserIds, m \in 1..NPriorModules, faults \in SUBSET {"L4"}, tb \in TieBreaks :
             InjectPrior(u, m, faults, tb)
    \/ Respond

SpecPrior == InitPrior /\ [][NextPrior]_vars

\* the conversations of a user in a module that Layer 4 reads: those with a
\* stored text
WithText(u, m) ==
    {c \in Range(conversations) :
        c.user_id = u /\ c.module_id = m /\ c.messages_json.kind # "null"}

PriorCalled == ret.op = "inject_prior_knowledge" /\ ret.faults = {}

\* C21 as stated: no entry for the current module, at most one entry per
\* other module, each entry taken from that module's most recently updated
\* conversation of the user with ties on the update time broken by the
\* highest conversation id, and the entries are the 3 most recent ones in
\* recency order.
C21_MostRecentHighestId ==
    PriorCalled =>
        LET insights == ret.out.prior_module_insights
            all == [m \in 1..NPriorModules |->
                      {c \in Range(conversations) :
                          c.user_id = ret.user_id /\ c.module_id = m}]
            newest(m) == CHOOSE c \in all[m] :
                            \A d \in all[m] :
                               \/ d.updated_at < c.updated_at
                               \/ d.updated_at = c.updated_at /\ d.id <= c.id
        IN /\ \A i \in DOMAIN insights : insights[i].module_id # ret.module_id
           /\ \A i, k \in DOMAIN insights :
                 insights[i].module_id = insights[k].module_id => i = k
           /\ \A i \in DOMAIN insights :
                 /\ insights[i].last_activity = newest(insights[i].module_id).updated_at
                 /\ insights[i].message_count =
                       StoredMessageCount(newest(insights[i].module_id))
           /\ Len(insights) <= 3
           /\ \A i, k \in DOMAIN insights :
                 i < k => insights[i].last_activity >= insights[k].last_activity

\* C21, amended: no entry for the current module, at most one entry per
\* other module, each entry taken from a most recently updated conversation
\* of the user in that module among those with a stored text (any one of
\* them when several share that update time), and the entries are the 3 most
\* recent ones in recency order: no module left out is more recent than a
\* module listed.
C21_MostRecentWithText ==
    PriorCalled =>
        LET insights == ret.out.prior_module_insights
            others == {m \in 1..NPriorModules :
                          m # ret.module_id /\ WithText(ret.user_id, m) # {}}
            latest(m) == CHOOSE t \in {c.updated_at : c \in WithText(ret.user_id, m)} :
                            \A c \in WithText(ret.user_id, m) : c.updated_at <= t
            listed == {insights[i].module_id : i \in DOMAIN insights}
        IN /\ listed \subseteq others
           /\ \A i, k \in DOMAIN insights :
                 insights[i].module_id = insights[k].module_id => i = k
           /\ \A i \in DOMAIN insights :
                 \E c \in WithText(ret.user_id, insights[i].module_id) :
                    /\ c.updated_at = latest(insights[i].module_id)
                    /\ insights[i].last_activity = c.updated_at
                    /\ insights[i].message_count = StoredMessageCount(c)
           /\ Len(insights) = Min(3, Cardinality(others))
           /\ \A i, k \in DOMAIN insights :
                 i < k => insights[i].last_activity >= insights[k].last_activity
           /\ \A m \in others \ listed :
                 \A i \in DOMAIN insights : latest(m) <= insights[i].last_activity

\* four other modules have conversations: three are listed, and the entry
\* of module 2 comes from its older conversation because the newer one has
\* no stored text
C21_Witness ==
    /\ PriorCalled
    /\ ret.user_id = 1
    /\ ret.module_id = 1
    /\ Len(ret.out.prior_module_insights) = 3
    /\ \E c \in Range(conversations) :
          c.id = 2 /\ c.messages_json.kind = "null" /\ c.updated_at = 2
    /\ \E i \in DOMAIN ret.out.prior_module_insights :
          /\ ret.out.prior_module_insights[i].module_id = 2
          /\ ret.out.prior_module_insights[i].message_count = 2
          /\ ret.out.prior_module_insights[i].last_activity = 1

\* ============================================ properties: teaching strategy
\* C22: the strategy delivered in the module layer is the string the rule
\* table gives for the module title: the first matching keyword in the order
\* 'communication', 'media', 'society' decides, the generic default applies
\* when none matches.
C22_StrategyByRuleTable ==
    (Assembled /\ "L2" \notin ret.faults) =>
        ret.out.memory_layers.module_data.socratic_strategy =
            SocraticStrategyBody(ModuleRow(ret.module_id).row)

\* no conversation of the user in another module and no summary of the user
NoPriorRows(u, m) ==
    /\ \A c \in Range(conversations) : ~(c.user_id = u /\ c.module_id # m)
    /\ \A r \in Range(memory_summaries) : r.user_id # u

\* C23 as stated: when the prior-knowledge queries fail or return no rows,
\* the layer holds an empty list of prior module insights and an empty list
\* of mastered concepts, and nothing is raised.
C23_EmptyListsOnFailure ==
    (/\ ret.op = "inject_prior_knowledge"
     /\ ("L4" \in ret.faults \/ NoPriorRows(ret.user_id, ret.module_id))) =>
        /\ "raised" \notin DOMAIN ret.out
        /\ ret.out.prior_module_insights = <<>>
        /\ ret.out.mastered_concepts = <<>>

\* C23, amended: nothing is raised; when the queries return no rows both
\* lists are empty; when a query fails the list of prior module insights is
\* empty and the mastered concepts are the two default entries
\* 'Communication fundamentals' and 'Critical thinking'.
C23_DefaultsOnFailure ==
    (/\ ret.op = "inject_prior_knowledge"
     /\ ("L4" \in ret.faults \/ NoPriorRows(ret.user_id, ret.module_id))) =>
        /\ "raised" \notin DOMAIN ret.out
        /\ ret.out.prior_module_insights = <<>>
        /\ ret.out.cross_module_connections = <<>>
        /\ ret.out.mastered_concepts =
              IF "L4" \in ret.faults
                THEN <<"Communication fundamentals", "Critical thinking">>
                ELSE <<>>

\* the queries failed for a user who has conversations and summaries
C23_Witness ==
    /\ ret.op = "inject_prior_knowledge"
    /\ "L4" \in ret.faults
    /\ ret.user_id = 1
    /\ memory_summaries # <<>>
    /\ ret.out.prior_module_insights = <<>>
    /\ Len(ret.out.mastered_concepts) = 2

\* ------------------------------------------------- chat request with the LLM
\* The attributes of EnhancedMemoryService: the methods the class defines
\* and the db attribute set by __init__.
EnhancedMemoryServiceAttrs ==
    {"db", "assemble_enhanced_context", "_inject_system_data", "_inject_module_data",
     "_inject_conversation_data", "_inject_prior_knowledge",
     "_assemble_optimized_prompt", "_calculate_context_metrics",
     "_get_user_safely", "_get_module_safely", "_extract_dialogue_context",
     "_analyze_conversation_patterns", "_analyze_current_message",
     "_generate_socratic_strategy", "_create_fallback_context",
     "_handle_memory_error", "save_memory_summary", "update_user_progress"}

\* hasattr(memory_service, name); an attribute access that fails raises
\* AttributeError
HasAttr(name) == name \in EnhancedMemoryServiceAttrs

\* _call_openai_api: max_retries and retry_delay (seconds)
max_retries == 3
retry_delay == 1

\* what one awaited openai.ChatCompletion.acreate can do: return a
\* completion, or raise RateLimitError, APIError or another exception
ApiOutcomes == {"ok", "rate_limit", "api_error", "exception"}

\* variant: every error is retried
ShouldRetryAnyError(outcome, attempt) ==
    outcome # "ok" /\ attempt < max_retries - 1

\* the except clauses of _call_openai_api: only RateLimitError is retried,
\* and only while attempt < max_retries - 1
ShouldRetry(outcome, attempt) ==
    outcome = "rate_limit" /\ attempt < max_retries - 1

\* wait_time = retry_delay * (2 ** attempt)
WaitTime(attempt) == retry_delay * (2 ^ attempt)

\* the module ids of chat requests: 1, 2 and 3 have a demo reply of their
\* own, 4 takes the default one
ChatModuleIds == 1..4

\* a text of the given length whose characters at the positions in marks are
\* question marks; every other character (letters, blanks, '!', ',', ':',
\* apostrophes, none of them a '.' or a '?') is written "a"
TextWithMarks(length, marks) == [i \in 1..length |-> IF i \in marks THEN "?" ELSE "a"]

\* demo_responses.get(module_id, default) of _generate_demo_response: the
\* four texts have 211, 182, 170 and 132 characters, no full stop, and two
\* question marks each, at the positions given
DemoResponses(module_id) ==
    CASE module_id = 1 -> TextWithMarks(211, {125, 211})
      [] module_id = 2 -> TextWithMarks(182, {108, 182})
      [] module_id = 3 -> TextWithMarks(170, {104, 170})
      [] OTHER -> TextWithMarks(132, {65, 132})

\* the mock analysis of _generate_demo_response (score in hundredths)
DemoAnalysis ==
    SocraticAnalysis([question_count |-> 3,
                      socratic_compliance |-> "HIGH",
                      engagement_level |-> "HIGH",
                      effectiveness_score |-> 85])

\* the fields of SocraticAnalysis that _analyze_socratic_compliance computes
\* from the counts of the reply
AnalysisFields == {"question_count", "socratic_compliance", "engagement_level", "effectiveness_score"}

\* completions the API returns, after .strip()
ApiReplies ==
    {<<>>, <<"a">>, <<"a", "?">>, <<"a", ".", "a", "?">>,
     <<"a", ".", "a", ".", "a", "?">>, <<"?", "a", "?", "a", "?">>}

\* POST /chat/enhanced, up to the creation of the memory service; user_id is
\* current_user.id or request.user_id, and a request without one gets 400
ChatRequest(module_id, demo_mode, has_user) ==
    /\ chat.pc = "none"
    /\ chat' = [pc |-> IF has_user THEN "assemble" ELSE "done",
                module_id |-> module_id,
                demo_mode |-> demo_mode,
                context |-> "none",
                memory_success |-> FALSE,
                attempt |-> 0,
                outcomes |-> <<>>,
                waits |-> <<>>,
                api |-> NoRet,
                success |-> FALSE,
                reply |-> <<>>,
                analysis |-> NoRet,
                persisted |-> FALSE,
                trace |-> <<>>,
                status |-> IF has_user THEN 0 ELSE 400]
    /\ UNCHANGED <<store, ops, arg, ret, sessions, socket, tracker>>

\* Step 1: memory_service.assemble_memory_context(...) inside try/except
\* Exception: when the attribute is missing the access raises, and the
\* handler continues with the one-line fallback context
ChatAssembleContext ==
    /\ chat.pc = "assemble"
    /\ chat' = IF HasAttr("assemble_memory_context")
                 THEN [chat EXCEPT !.pc = "generate",
                                   !.context = "assembled_prompt",
                                   !.memory_success = TRUE,
                                   !.trace = Append(@, "assemble")]
                 ELSE [chat EXCEPT !.pc = "generate",
                                   !.context = "fallback",
                                   !.memory_success = FALSE,
                                   !.trace = Append(@, "fallback_context")]
    /\ UNCHANGED <<store, ops, arg, ret, sessions, socket, tracker>>

\* Step 2, generate_socratic_response up to its first await: in demo mode
\* it returns _generate_demo_response, otherwise it builds the prompts from
\* the context and enters _call_openai_api
GenerateSocraticResponse ==
    /\ chat.pc = "generate"
    /\ chat' = IF chat.demo_mode
                 THEN [chat EXCEPT !.pc = "insights",
                                   !.success = TRUE,
                                   !.reply = DemoResponses(chat.module_id),
                                   !.analysis = DemoAnalysis,
                                   !.trace = Append(@, "demo_reply")]
                 ELSE [chat EXCEPT !.pc = "api", !.attempt = 0]
    /\ UNCHANGED <<store, ops, arg, ret, sessions, socket, tracker>>

\* one iteration of the for loop of _call_openai_api.  A failure result
\* makes generate_socratic_response return success=False, and the endpoint
\* raise HTTPException(500).
CallOpenAIApi(outcome, completion) ==
    /\ chat.pc = "api"
    /\ chat.attempt < max_retries
    /\ LET made == [chat EXCEPT !.outcomes = Append(@, outcome),
                                !.trace = Append(@, "llm_call")]
       IN chat' =
            IF outcome = "ok"
              THEN [made EXCEPT !.pc = "analyze",
                                !.api = [success |-> TRUE, response |-> completion],
                                !.reply = completion]
            ELSE IF ShouldRetry(outcome, chat.attempt)
              THEN [made EXCEPT !.waits = Append(@, WaitTime(chat.attempt)),
                                !.attempt = @ + 1]
              ELSE [made EXCEPT !.pc = "done",
                                !.api = [success |-> FALSE, error |-> outcome],
                                !.success = FALSE,
                                !.status = 500]
    /\ UNCHANGED <<store, ops, arg, ret, sessions, socket, tracker>>

\* the rest of generate_socratic_response: the reply is analysed and the
\* response is returned with success=True
AnalyzeResponse ==
    /\ chat.pc = "analyze"
    /\ chat' = [chat EXCEPT !.pc = "insights",
                            !.success = TRUE,
                            !.analysis = SocraticAnalysis(AnalyzeSocraticCompliance(chat.reply)),
                            !.trace = Append(@, "analysis")]
    /\ UNCHANGED <<store, ops, arg, ret, sessions, socket, tracker>>

\* Steps 4 to 6: the learning insights are computed, the insights are saved
\* when the memory service has a save_conversation_insights attribute, and
\* the ChatResponse is returned
ChatRespond ==
    /\ chat.pc = "insights"
    /\ chat' = IF HasAttr("save_conversation_insights")
                 THEN [chat EXCEPT !.pc = "done", !.status = 200,
                                   !.persisted = TRUE,
                                   !.trace = @ \o <<"persist", "respond">>]
                 ELSE [chat EXCEPT !.pc = "done", !.status = 200,
                                   !.trace = Append(@, "respond")]
    /\ UNCHANGED <<store, ops, arg, ret, sessions, socket, tracker>>

\* the request is over; the next one starts from scratch
ChatEnd ==
    /\ chat.pc = "done"
    /\ chat' = NoChat
    /\ UNCHANGED <<store, ops, arg, ret, sessions, socket, tracker>>

InitChat ==
    /\ InitSeed
    /\ arg = NoArg
    /\ conversations = <<>>
    /\ memory_summaries = <<>>
    /\ user_progress = <<>>
    /\ sessions = <<>>
    /\ socket = NoSocket
    /\ chat = NoChat
    /\ tracker = NoTracker

NextChat ==
    \/ \E module_id \in ChatModuleIds, demo_mode \in BOOLEAN, has_user \in BOOLEAN :
           ChatRequest(module_id, demo_mode, has_user)
    \/ ChatAssembleContext
    \/ GenerateSocraticResponse
    \/ \E outcome \in ApiOutcomes, completion \in ApiReplies :
           CallOpenAIApi(outcome, completion)
    \/ AnalyzeResponse
    \/ ChatRespond
    \/ ChatEnd

SpecChat == InitChat /\ [][NextChat]_vars

\* the index of the first occurrence of a step in the trace of the request,
\* 0 when it did not happen
FirstStep(step) ==
    IF \E i \in DOMAIN chat.trace : chat.trace[i] = step
      THEN CHOOSE i \in DOMAIN chat.trace :
               chat.trace[i] = step /\ \A j \in 1..(i - 1) : chat.trace[j] # step
      ELSE 0

\* a request answered with 200: its LLM call succeeded
ChatSucceeded == chat.pc = "done" /\ chat.status = 200

\* C24: in every chat request whose LLM call succeeds the steps happen in
\* the order context assembly, LLM call with the assembled prompt,
\* compliance analysis of the reply, persist-insight call; the analysis
\* never runs before a reply exists and the persist step happens for each
\* such request.
C24_OrchestrationOrder ==
    ChatSucceeded =>
        /\ FirstStep("assemble") > 0
        /\ chat.context = "assembled_prompt"
        /\ FirstStep("persist") > 0
        /\ chat.persisted
        /\ FirstStep("assemble") < FirstStep("persist")
        /\ (FirstStep("llm_call") > 0 => FirstStep("assemble") < FirstStep("llm_call"))
        /\ (FirstStep("analysis") > 0 =>
               /\ FirstStep("llm_call") > 0
               /\ FirstStep("llm_call") < FirstStep("analysis")
               /\ FirstStep("analysis") < FirstStep("persist"))

\* the _call_openai_api invocation of the request has returned its result
ApiEnded == chat.pc # "none" /\ chat.api # NoRet

\* C28: one _call_openai_api invocation makes at most 3 API attempts; a
\* further attempt is made only after a rate-limit error on the previous
\* one, after waiting 1s, then 2s; any other error, or a rate-limit error
\* on the third attempt, ends the call with a failure result, the first
\* successful attempt ends it with success, and the call ends with a result
\* record, never with an exception.
C28_BoundedRetry ==
    chat.pc # "none" =>
        LET made == Len(chat.outcomes)
            decisive == made >= 1 /\ (chat.outcomes[made] # "rate_limit" \/ made = 3)
        IN /\ made <= 3
           /\ \A i \in 1..(made - 1) : chat.outcomes[i] = "rate_limit"
           /\ ApiEnded <=> decisive
           /\ ApiEnded =>
                 /\ chat.pc # "api"
                 /\ chat.api.success \in BOOLEAN
                 /\ chat.api.success <=> chat.outcomes[made] = "ok"
                 /\ chat.waits = Take(<<1, 2>>, made - 1)
           /\ (chat.pc = "api" /\ ~ApiEnded) =>
                 /\ made < 3
                 /\ chat.attempt = made
                 /\ chat.waits = Take(<<1, 2>>, made)

\* three rate-limit errors in a row: two waits, 1s and 2s, then the failure
C28_Witness ==
    /\ ApiEnded
    /\ chat.outcomes = <<"rate_limit", "rate_limit", "rate_limit">>
    /\ chat.waits = <<1, 2>>
    /\ chat.api.success = FALSE
    /\ chat.status = 500

\* generate_socratic_response has returned success=True
GenerateSucceeded == chat.pc \in {"insights", "done"} /\ chat.success

\* C29: whenever generate_socratic_response returns success, in live mode
\* or in demo mode, its socratic_analysis equals the compliance analysis of
\* the returned reply text; in particular question_count equals the number
\* of '?' characters in that reply.
C29_AnalysisDescribesReply ==
    GenerateSucceeded =>
        /\ chat.analysis.question_count = CountChar(chat.reply, "?")
        /\ \A f \in AnalysisFields :
               chat.analysis[f] = AnalyzeSocraticCompliance(chat.reply)[f]

\* ------------------------------------------- prompt assembly, full layers
\* A store in which Layer 4 returns more than it shows: conversations of
\* user 1 in four other modules and five confident memory summaries.
InitPrompt ==
    /\ users = UserIds
    /\ modules = [i \in 1..NPriorModules |-> ModuleSeed(i)]
    /\ onboarding = SurveySeed
    /\ ops = 0
    /\ ret = NoRet
    /\ arg = NoArg
    /\ sessions = <<>>
    /\ socket = NoSocket
    /\ chat = NoChat
    /\ tracker = NoTracker
    /\ conversations \in
          {<<>>,
           <<ConversationRow(1, 1, 2, 1, JList(2, "media"), 0),
             ConversationRow(2, 1, 3, 2, JList(3, "media"), 0),
             ConversationRow(3, 1, 4, 3, JList(4, "media"), 0),
             ConversationRow(4, 1, 5, 4, JInvalid, 0)>>}
    /\ memory_summaries \in
          {<<>>,
           <<SummaryRow(1, 1, 2, "framing", "dialogue", "", 9, 9),
             SummaryRow(2, 1, 3, "agenda setting", "dialogue", "links to module 2", 9, 9),
             SummaryRow(3, 1, 4, "gatekeeping", "dialogue", "", 8, 9),
             SummaryRow(4, 1, 5, "priming", "dialogue", "", 8, 9),
             SummaryRow(5, 1, 2, "cultivation", "dialogue", "", 7, 9)>>}
    /\ user_progress = <<>>

NextPrompt ==
    \/ /\ ret = NoRet
       /\ \E u \in UserIds, m \in 1..NPriorModules, msg \in MessageSamples,
             faults \in SUBSET FaultPoints, tb \in TieBreaks :
             AssembleContext(u, m, msg, 0, faults, tb)
    \/ Respond

SpecPrompt == InitPrompt /\ [][NextPrompt]_vars

\* the section a line of the prompt belongs to, by the marker it opens with;
\* strategy_section is the place given to the 'SOCRATIC APPROACH' line
SectionOf(marker, strategy_section) ==
    CASE marker = "=== HARV ENHANCED MEMORY CONTEXT ===" -> 0
      [] marker \in {"STUDENT PROFILE", "LEARNING GOALS", "PRIOR EXPERIENCE"} -> 10
      [] marker \in {"MODULE CONTEXT", "LEARNING OBJECTIVES", "PROGRESS",
                     "TEACHING APPROACH", "MODULE STRATEGY"} -> 20
      [] marker \in {"CONVERSATION STATE", "DIALOGUE CONTEXT", "RECENT MESSAGES"} -> 30
      [] marker \in {"PRIOR LEARNING CONNECTIONS", "- connection", "MASTERED CONCEPTS"} -> 40
      [] marker = "SOCRATIC APPROACH" -> strategy_section
      [] marker \in {"STUDENT MESSAGE", "RESPONSE STRATEGY"} -> 50
      [] marker \in {"=== CORE INSTRUCTION ===", "Remember", "Focus", "Build"} -> 60

\* the lines of the prompt run through the sections in ascending order
InSectionOrder(prompt, strategy_section) ==
    \A i, j \in DOMAIN prompt :
        i < j => SectionOf(prompt[i].marker, strategy_section)
                   <= SectionOf(prompt[j].marker, strategy_section)

\* at most 2 connections and at most 3 mastered concepts are listed: the
\* first ones of what Layer 4 returned
CapsHold(out) ==
    LET prompt == out.assembled_prompt
        prior_knowledge == out.memory_layers.prior_knowledge
        listed == Cardinality({i \in DOMAIN prompt : prompt[i].marker = "- connection"})
    IN /\ listed = Min(2, Len(prior_knowledge.prior_module_insights))
       /\ \A i \in DOMAIN prompt :
             prompt[i].marker = "MASTERED CONCEPTS" =>
                prompt[i].text = "MASTERED CONCEPTS: "
                                   \o JoinWith(Take(prior_knowledge.mastered_concepts, 3), ", ")

\* a prompt was assembled from the four layers
PromptAssembled == ret # NoRet /\ ret.op = "assemble" /\ ret.out.path = "assembled"

NextStore ==
    \/ /\ ret = NoRet
       /\ \E u \in {CurrentUser, NUsers + 1}, m \in {1, NModules + 1},
             faults \in SUBSET FaultPoints :
             AssembleContext(u, m, <<>>, 0, faults, "desc")
    \/ /\ ret = NoRet
       /\ \E u \in UserIds, m \in ModuleIds, fail \in BOOLEAN :
             SaveMemorySummary(u, m, "framing", "dialogue", "links to module 1", 8, fail)
    \/ /\ ret = NoRet
       /\ \E u \in UserIds, m \in ModuleIds, fail \in BOOLEAN :
             UpdateUserProgress(u, m, 50, 1, 2, fail)
    \/ Respond

SpecStore == Init /\ [][NextStore]_vars

\* C26: a call of assemble_context, on the normal path or on any fallback
\* path, leaves every stored User, Module, Conversation, InsightSummary and
\* ProgressRecord row unchanged; the store is modified only by save_insight,
\* which touches only InsightSummary rows, and by update_progress, which
\* touches only ProgressRecord rows.
C26_AssembleReadOnly ==
    [][/\ (ret = NoRet /\ ret'.op = "assemble") => store' = store
       /\ <<users, modules, onboarding, conversations>>'
             = <<users, modules, onboarding, conversations>>
       /\ memory_summaries' # memory_summaries =>
             (ret'.op = "save_memory_summary" /\ user_progress' = user_progress)
       /\ user_progress' # user_progress =>
             (ret'.op = "update_user_progress" /\ memory_summaries' = memory_summaries)]_vars

\* an assembly on the fallback path and one on the normal path, each run on
\* a store that holds a saved summary and a progress record
C26_Witness ==
    /\ ret.op = "assemble"
    /\ ret.out.path = "assembled"
    /\ ret.faults # {}
    /\ memory_summaries # <<>>
    /\ user_progress # <<>>

\* C27: in every result assemble_context returns, on the normal path, the
\* missing-entity fallback and the exception fallback,
\* context_metrics.total_chars equals the length of the returned
\* assembled_prompt.
C27_TotalCharsIsPromptLength ==
    (ret # NoRet /\ ret.op = "assemble") =>
        ret.out.context_metrics.total_chars = PromptLen(ret.out.assembled_prompt)

\* ------------------------------------------------------- metrics tracker
\* how many calls of each kind a run makes
MaxRequests == 103
MaxMemoryRecords == 53
MaxErrors == 2

\* the sizes of the two windows of MetricsTracker
RequestWindow == 100
MemoryWindow == 50

\* durations in milliseconds
DurationSamples == {120}

\* variant: the newest entry is dropped when the window is full
TrimWindowNewest(window, limit) ==
    IF Len(window) > limit THEN SubSeq(window, 1, Len(window) - 1) ELSE window

\* if len(window) > limit: window.pop(0)
TrimWindow(window, limit) ==
    IF Len(window) > limit THEN Tail(window) ELSE window

\* the entry appended for a call: its datetime.now() is kept as the arrival
\* number of the call among the calls of its kind
Entry(arrival, duration_ms) == [time |-> arrival, duration_ms |-> duration_ms]

\* record_request_time(duration_ms)
RecordRequestTime(duration_ms) ==
    /\ Len(tracker.recorded_requests) < MaxRequests
    /\ LET entry == Entry(Len(tracker.recorded_requests) + 1, duration_ms)
       IN tracker' = [tracker EXCEPT
                         !.request_times = TrimWindow(Append(@, entry), RequestWindow),
                         !.api_calls = @ + 1,
                         !.recorded_requests = Append(@, entry)]
    /\ UNCHANGED <<store, ops, arg, ret, sessions, socket, chat>>

\* record_memory_time(duration_ms)
RecordMemoryTime(duration_ms) ==
    /\ Len(tracker.recorded_memory) < MaxMemoryRecords
    /\ LET entry == Entry(Len(tracker.recorded_memory) + 1, duration_ms)
       IN tracker' = [tracker EXCEPT
                         !.memory_times = TrimWindow(Append(@, entry), MemoryWindow),
                         !.recorded_memory = Append(@, entry)]
    /\ UNCHANGED <<store, ops, arg, ret, sessions, socket, chat>>

\* record_error()
RecordError ==
    /\ tracker.errors < MaxErrors
    /\ tracker' = [tracker EXCEPT !.errors = @ + 1]
    /\ UNCHANGED <<store, ops, arg, ret, sessions, socket, chat>>

InitTracker ==
    /\ InitSeed
    /\ arg = NoArg
    /\ conversations = <<>>
    /\ memory_summaries = <<>>
    /\ user_progress = <<>>
    /\ sessions = <<>>
    /\ socket = NoSocket
    /\ chat = NoChat
    /\ tracker = NoTracker

NextTracker ==
    \/ \E duration_ms \in DurationSamples : RecordRequestTime(duration_ms)
    \/ \E duration_ms \in DurationSamples : RecordMemoryTime(duration_ms)
    \/ RecordError

SpecTracker == InitTracker /\ [][NextTracker]_vars

\* the windows hold the last min(n, 100) requests and the last min(m, 50)
\* memory assemblies, in arrival order, and the request counter is n
WindowsBounded ==
    LET n == Len(tracker.recorded_requests)
        m == Len(tracker.recorded_memory)
    IN /\ tracker.request_times = Last(tracker.recorded_requests, Min(n, 100))
       /\ Len(tracker.request_times) = Min(n, 100)
       /\ tracker.memory_times = Last(tracker.recorded_memory, Min(m, 50))
       /\ Len(tracker.memory_times) = Min(m, 50)
       /\ tracker.api_calls = n

\* C30: after any sequence of record_request_time / record_memory_time
\* calls the request window holds exactly the last min(n, 100) recorded
\* requests in arrival order and the memory-assembly window the last
\* min(m, 50), the total request counter equals the number n of requests
\* ever recorded, and the error counter never decreases.
C30_WindowsBounded ==
    /\ []WindowsBounded
    /\ [][tracker'.errors >= tracker.errors]_vars

\* both windows have overflowed and an error was counted
C30_Witness ==
    /\ Len(tracker.recorded_requests) > 100
    /\ Len(tracker.recorded_memory) > 50
    /\ Len(tracker.request_times) = 100
    /\ Len(tracker.memory_times) = 50
    /\ tracker.errors > 0

====
